---- MODULE Spec2Model ----
(***************************************************************************)
(* A model of the RAG core of gollem (pkg/rag): the chunker                *)
(* (RAG.chunkDocument), the in-memory vector store (MemoryVectorStore,     *)
(* the embedding-keyed variant guarded by a sync.Mutex) and the retrieval  *)
(* orchestrator (RAG.AddDocument / RAG.AddDocuments).                      *)
(*                                                                         *)
(* The specifications share the variables:                                 *)
(*   SpecStore  one caller at a time on the store: every operation is one  *)
(*              action (the whole method);                                 *)
(*   SpecDoc    one caller at a time on the orchestrator: RAG.AddDocument  *)
(*              as one action, over stores also written directly;          *)
(*   SpecConc   several goroutines calling the store, each operation       *)
(*              split into Lock / load / store / Unlock steps;             *)
(*   SpecRace   several goroutines calling the string-keyed                *)
(*              MemoryVectorStore of the same package, which has no        *)
(*              mutex: each load and store of its slices is a step;        *)
(*   SpecChunk  the chunking loop, one iteration per step, under every     *)
(*              configuration NewRAG accepts;                              *)
(*   SpecIngest RAG.AddDocuments over batches of documents;                *)
(*   SpecSplit  CharacterTextSplitter.SplitDocument, one iteration per     *)
(*              step;                                                      *)
(*   SpecQuery  RAG.RetrieveChunks and QueryEngine.Query, each one         *)
(*              action, with the calls they make logged;                   *)
(*   SpecStrQuery the QueryEngine of the string-keyed file;                *)
(*   SpecRagQuery RAG.Query, retrieval and generation as one action;       *)
(*   SpecOptions the QueryEngine under every QueryOptions value, over      *)
(*              chunks that carry metadata;                                *)
(*   SpecLive   several goroutines calling the store under weak fairness   *)
(*              of each goroutine's steps;                                 *)
(*   SpecCache  MemoryCache (pkg/cache): Get, Set, Invalidate and Clear,   *)
(*              each one action, with the clock advancing between calls;   *)
(*   SpecMiddleware CacheMiddleware.Generate and GenerateStream over a     *)
(*              MemoryCache and a provider that may fail.                  *)
(*                                                                         *)
(* Modelling conventions                                                   *)
(*   - a Go string used only as a name is a TLA+ string; a document's      *)
(*     content is a sequence of bytes, so that content[i:end] is SubSeq;   *)
(*   - an error is the chain of messages fmt.Errorf("...: %w") builds,     *)
(*     outermost first; nil is the empty chain;                            *)
(*   - a []float32 embedding is a sequence of integers; a nil embedding    *)
(*     is the empty sequence;                                              *)
(*   - a cosine score is kept as the exact signed square                   *)
(*     sgn(dot)*dot^2 / (normA*normB), which orders exactly as the         *)
(*     quotient the code computes;                                         *)
(*   - sort.Slice is documented as not stable: its result is any           *)
(*     arrangement that is sorted under the less function.                 *)
(***************************************************************************)
EXTENDS Integers, Sequences, FiniteSets, TLC

VARIABLES
    chunks,   \* MemoryVectorStore.chunks
    rag,      \* the RAG's configuration: ChunkSize, ChunkOverlap, TopK
    last,     \* the last call made in SpecStore: arguments, store before, results
    mu,       \* MemoryVectorStore.mu: unlocked, or the goroutine holding it
    procs,    \* SpecConc, SpecRace: each goroutine's position and locals
    hist,     \* SpecConc: the store after each mutation in commit order, were each
              \* atomic; its first element is the store before any call
    ck,       \* SpecChunk: the state of one chunkDocument call
    sDocuments, \* SpecRace: MemoryVectorStore.documents of the string-keyed store
    sVectors,   \* SpecRace: MemoryVectorStore.vectors of the string-keyed store
    qe,         \* SpecQuery: the QueryEngine built, with its RAG's embeddings provider
    cache,      \* SpecCache: the MemoryCache: entries, ttl, maxEntries
    now,        \* SpecCache: the clock read by time.Now() and time.Since()
    live        \* SpecCache: per key, the last Set not undone since (history variable)

vars == <<chunks, rag, last, mu, procs, hist, ck, sDocuments, sVectors, qe, cache, now, live>>

(***************************************************************************)
(* Bounds of the model.                                                    *)
(***************************************************************************)
MaxChunks == 3
\* the longest batch handed to AddChunks
MaxBatch == 2
\* the largest limit handed to SimilaritySearch
MaxLimit == 2
\* the length of the documents handed to AddDocument and AddDocuments
MaxLen == 2
\* the most documents handed to AddDocuments
MaxDocs == 2
\* the largest ChunkSize a RAG is configured with in SpecStore
MaxChunkSize == 2

(***************************************************************************)
(* Small helpers.                                                          *)
(***************************************************************************)
Min(a, b) == IF a < b THEN a ELSE b

Range(s) == {s[i] : i \in 1..Len(s)}

Take(s, n) == SubSeq(s, 1, Min(n, Len(s)))

RECURSIVE SeqsUpTo(_, _)
\* every sequence over S of length at most n
SeqsUpTo(S, n) ==
    IF n = 0 THEN {<<>>}
    ELSE LET shorter == SeqsUpTo(S, n - 1)
         IN  shorter \cup {Append(s, x) : s \in {t \in shorter : Len(t) = n - 1}, x \in S}

\* the nil error
Nil == <<>>

\* fmt.Errorf(msg + ": %w", err)
Wrap(msg, err) == <<msg>> \o err

(***************************************************************************)
(* Inputs.                                                                 *)
(***************************************************************************)
\* the bytes a document is made of: Text[i] is the byte at offset i-1
Text == <<"a", "b", "c", "d", "e", "f", "g", "h">>

DocIDs == {"d1", "d2"}

\* A *Document as AddDocument reads it: HasEmbedding says whether
\* document.Embedding is already set.
Documents == [ID : DocIDs, Content : {SubSeq(Text, 1, MaxLen)}, HasEmbedding : BOOLEAN]

\* the vectors callers and the embeddings provider produce: two dimensions occur
QueryVectors == {<<1, 0>>, <<2, 1>>, <<1>>}

GatewayVectors == {<<1, 0>>, <<1>>}

\* the error an EmbeddingsProvider returns
GatewayError == <<"embeddings provider error">>

\* Embedded chunks a caller hands to AddChunks directly.
MkChunk(id, doc, content, emb) ==
    [ID |-> id, DocumentID |-> doc, Content |-> content, Embedding |-> emb]

ChunkPool ==
    { MkChunk("c1", "x", <<"a">>, <<1, 0>>),
      MkChunk("c2", "x", <<"b">>, <<0, 1>>),
      MkChunk("c3", "y", <<"c">>, <<1>>) }

Batches == SeqsUpTo(ChunkPool, MaxBatch)

(***************************************************************************)
(* The chunker: RAG.chunkDocument.                                         *)
(*                                                                         *)
(* A call is in state [pc, i, out]: pc is "loop" before each test of the   *)
(* loop condition, "done" once the function has returned out, and "panic"  *)
(* when the slice expression content[i:end] is out of range.               *)
(***************************************************************************)
\* fmt.Sprintf("%s-%d", documentID, offset)
ChunkID(documentID, offset) == documentID \o "-" \o ToString(offset)

\* an entry without the single-chunk return: every content goes to the loop
chunkBeginNoShortcut(document, chunkSize) == [pc |-> "loop", i |-> 0, out |-> <<>>]

\* chunkDocument up to the loop: a content no longer than chunkSize comes
\* back as the single chunk "<ID>-0"
chunkBegin(document, chunkSize) ==
    IF Len(document.Content) <= chunkSize
    THEN [pc |-> "done", i |-> 0,
          out |-> <<MkChunk(ChunkID(document.ID, 0), document.ID, document.Content, <<>>)>>]
    ELSE [pc |-> "loop", i |-> 0, out |-> <<>>]

\* a step that forgets the overlap
chunkStrideNoOverlap(chunkSize, chunkOverlap) == chunkSize

\* a step one byte too long
chunkStrideSkipping(chunkSize, chunkOverlap) == chunkSize - chunkOverlap + 1

\* the step of the loop: i += chunkSize - chunkOverlap
chunkStride(chunkSize, chunkOverlap) == chunkSize - chunkOverlap

\* the window's end: i + chunkSize, clipped to len(content)
chunkEnd(i, chunkSize, n) == IF i + chunkSize > n THEN n ELSE i + chunkSize

\* one pass of the loop: the test i < len(content), the body, the post statement
chunkIterate(document, chunkSize, chunkOverlap, st) ==
    LET content == document.Content
        n   == Len(content)
        end == chunkEnd(st.i, chunkSize, n)
    IN  IF ~(st.i < n) THEN [st EXCEPT !.pc = "done"]
        ELSE IF st.i < 0 \/ end < st.i THEN [st EXCEPT !.pc = "panic"]
        ELSE LET c == MkChunk(ChunkID(document.ID, st.i), document.ID,
                              SubSeq(content, st.i + 1, end), <<>>)
             IN  IF end = n
                 THEN [pc |-> "done", i |-> st.i, out |-> Append(st.out, c)]
                 ELSE [pc |-> "loop", i |-> st.i + chunkStride(chunkSize, chunkOverlap),
                       out |-> Append(st.out, c)]

RECURSIVE chunkRun(_, _, _, _)
chunkRun(document, chunkSize, chunkOverlap, st) ==
    IF st.pc # "loop" THEN st
    ELSE chunkRun(document, chunkSize, chunkOverlap,
                  chunkIterate(document, chunkSize, chunkOverlap, st))

\* the chunks a call returns (used where the configuration lets the loop end)
chunkDocument(document, chunkSize, chunkOverlap) ==
    chunkRun(document, chunkSize, chunkOverlap, chunkBegin(document, chunkSize)).out

(***************************************************************************)
(* The vector store: MemoryVectorStore (embedding-keyed).                  *)
(***************************************************************************)
RECURSIVE DotFrom(_, _, _)
DotFrom(a, b, i) == IF i > Len(a) THEN 0 ELSE a[i] * b[i] + DotFrom(a, b, i + 1)

\* the three sums of cosineSimilarity's loop
Dot(a, b) == DotFrom(a, b, 1)

Sgn(x) == IF x > 0 THEN 1 ELSE IF x < 0 THEN -1 ELSE 0

\* the score 0
ZeroScore == [num |-> 0, den |-> 1]

\* cosineSimilarity(a, b): 0 for vectors of different length or of zero norm,
\* else dot/(sqrt(normA)*sqrt(normB)), kept as sgn(dot)*dot^2 / (normA*normB)
cosineSimilarity(a, b) ==
    IF Len(a) # Len(b) THEN ZeroScore
    ELSE LET dotProduct == Dot(a, b)
             normA == Dot(a, a)
             normB == Dot(b, b)
         IN  IF normA = 0 \/ normB = 0 THEN ZeroScore
             ELSE [num |-> Sgn(dotProduct) * dotProduct * dotProduct, den |-> normA * normB]

\* x > y on scores
ScoreGreater(x, y) == x.num * y.den > y.num * x.den

\* a less function with the comparison turned round (lowest score first)
searchLessAscending(x, y) == ScoreGreater(y, x)

\* the less function handed to sort.Slice: scores[i].score > scores[j].score
searchLess(x, y) == ScoreGreater(x, y)

\* the scores slice of SimilaritySearch: one score per stored chunk, in store order
searchScores(store, embedding) ==
    [i \in 1..Len(store) |-> cosineSimilarity(embedding, store[i].Embedding)]

\* sort.Slice(scores, less): every arrangement p of the positions that is sorted
\* under less (no later element is less than an earlier one); which one among
\* equal elements is up to the sort
sortSlice(scores) ==
    {p \in Permutations(1..Len(scores)) :
        \A i, j \in 1..Len(scores) : i < j => ~searchLess(scores[p[j]], scores[p[i]])}

\* the loop that copies the first limit sorted chunks into the result
searchTop(p, limit) == Take(p, limit)

\* a search that raises on a store holding nothing
SimilaritySearchRaising(store, embedding, limit) ==
    IF Len(store) = 0
    THEN {[panic |-> FALSE, ret |-> <<>>, err |-> <<"no documents in the store">>]}
    ELSE {[panic |-> limit < 0, ret |-> searchTop(p, limit), err |-> Nil] :
             p \in sortSlice(searchScores(store, embedding))}

\* SimilaritySearch(ctx, embedding, limit): the possible results, each the sequence
\* of store positions of the chunks returned; make([]*Chunk, 0, limit) panics on a
\* negative limit
SimilaritySearch(store, embedding, limit) ==
    IF limit < 0 THEN {[panic |-> TRUE, ret |-> <<>>, err |-> Nil]}
    ELSE {[panic |-> FALSE, ret |-> searchTop(p, limit), err |-> Nil] :
             p \in sortSlice(searchScores(store, embedding))}

\* AddChunks(ctx, chunks): s.chunks = append(s.chunks, chunks...); return nil
AddChunks(store, batch) == [store |-> store \o batch, err |-> Nil]

\* a filter turned round: keeps the chunks whose ID is in ids
DeleteKeepingMatches(store, ids) ==
    [store |-> SelectSeq(store, LAMBDA c : c.ID \in ids), err |-> Nil]

\* Delete(ctx, ids): keeps the chunks whose ID is not in ids, in order
Delete(store, ids) ==
    [store |-> SelectSeq(store, LAMBDA c : c.ID \notin ids), err |-> Nil]

\* Clear(ctx): s.chunks = make([]*Chunk, 0)
Clear(store) == [store |-> <<>>, err |-> Nil]

(***************************************************************************)
(* The retrieval orchestrator: RAG.AddDocument and RAG.AddDocuments.       *)
(*                                                                         *)
(* Each call of the embeddings provider either fails or returns a vector;  *)
(* an operation's possible outcomes are the set over all such answers.     *)
(* calls is the log of the provider calls made, in order.                  *)
(***************************************************************************)
\* the defaults NewRAG starts from
DefaultChunkSize == 1000
DefaultChunkOverlap == 200
DefaultTopK == 3

EmbedCall(text, ok) == [text |-> text, ok |-> ok]

RECURSIVE embedChunks(_)
\* the loop "for i := range chunks": one EmbedDocument call per chunk, returning at
\* the first failure; chunks is the slice as the loop leaves it
embedChunks(cs) ==
    IF cs = <<>> THEN {[chunks |-> <<>>, err |-> Nil, calls |-> <<>>]}
    ELSE {[chunks |-> cs,
           err    |-> Wrap("failed to embed chunk", GatewayError),
           calls  |-> <<EmbedCall(Head(cs).Content, FALSE)>>]}
         \cup
         {[chunks |-> <<[Head(cs) EXCEPT !.Embedding = v]>> \o r.chunks,
           err    |-> r.err,
           calls  |-> <<EmbedCall(Head(cs).Content, TRUE)>> \o r.calls] :
             v \in GatewayVectors, r \in embedChunks(Tail(cs))}

\* the first step of AddDocument: embed the whole document unless
\* document.Embedding is already set
embedWhole(document) ==
    IF document.HasEmbedding THEN {[err |-> Nil, calls |-> <<>>]}
    ELSE {[err   |-> Wrap("failed to embed document", GatewayError),
           calls |-> <<EmbedCall(document.Content, FALSE)>>],
          [err   |-> Nil,
           calls |-> <<EmbedCall(document.Content, TRUE)>>]}

\* a last step that stores the chunks embedded before the failure
addEmbeddedPartial(store, e) ==
    LET a == AddChunks(store, SelectSeq(e.chunks, LAMBDA c : c.Embedding # <<>>))
    IN  [store |-> a.store, err |-> e.err]

\* the last step of AddDocument: hand the embedded chunks to the store
addEmbedded(store, e) ==
    IF e.err # Nil THEN [store |-> store, err |-> e.err]
    ELSE LET a == AddChunks(store, e.chunks)
         IN  IF a.err # Nil
             THEN [store |-> a.store,
                   err   |-> Wrap("failed to add chunks to vector store", a.err)]
             ELSE [store |-> a.store, err |-> Nil]

\* AddDocument(ctx, document) on a RAG configured as cfg
AddDocument(store, cfg, document) ==
    UNION {
        IF f.err # Nil THEN {[store |-> store, err |-> f.err, calls |-> f.calls]}
        ELSE {[store |-> addEmbedded(store, e).store,
               err   |-> addEmbedded(store, e).err,
               calls |-> f.calls \o e.calls] :
                 e \in embedChunks(chunkDocument(document, cfg.ChunkSize, cfg.ChunkOverlap))}
        : f \in embedWhole(document)}

\* a document's provider calls, marked with the document's position in the batch
Tag(calls, k) == [i \in 1..Len(calls) |-> [doc |-> k, text |-> calls[i].text, ok |-> calls[i].ok]]

RECURSIVE addDocumentsFrom(_, _, _, _)
\* the loop of AddDocuments from the k-th document on: the first error is returned
\* as it is
addDocumentsFrom(store, cfg, documents, k) ==
    IF k > Len(documents) THEN {[store |-> store, err |-> Nil, calls |-> <<>>]}
    ELSE UNION {
        IF r.err # Nil
        THEN {[store |-> r.store, err |-> r.err, calls |-> Tag(r.calls, k)]}
        ELSE {[rest EXCEPT !.calls = Tag(r.calls, k) \o @] :
                 rest \in addDocumentsFrom(r.store, cfg, documents, k + 1)}
        : r \in AddDocument(store, cfg, documents[k])}

\* AddDocuments(ctx, documents)
AddDocuments(store, cfg, documents) == addDocumentsFrom(store, cfg, documents, 1)

(***************************************************************************)
(* SpecStore: one caller at a time.                                        *)
(***************************************************************************)
\* configurations under which chunkDocument returns for every document
ValidConfigs ==
    {cfg \in [ChunkSize : 1..MaxChunkSize, ChunkOverlap : 0..MaxChunkSize,
              TopK : {DefaultTopK}] : cfg.ChunkOverlap < cfg.ChunkSize}

IdleConfig == [ChunkSize |-> DefaultChunkSize, ChunkOverlap |-> DefaultChunkOverlap,
               TopK |-> DefaultTopK]

Limits == (-1)..MaxLimit

\* the identifier lists handed to Delete: stored, absent and chunker-made ids
DeleteIDs == SUBSET {"c1", "d1-0", "absent"}

Call(op, pre, arg, r) ==
    [op |-> op, pre |-> pre, arg |-> arg, err |-> r.err,
     ret |-> r.ret, calls |-> r.calls, panic |-> r.panic]

NoCall == [op |-> "none", pre |-> <<>>, arg |-> <<>>, err |-> Nil,
           ret |-> <<>>, calls |-> <<>>, panic |-> FALSE]

\* what stays as it is in SpecStore
IdleMu == "unlocked"
IdleProcs == <<>>
IdleHist == <<>>
IdleCk == [pc |-> "idle"]
NoDocuments == <<>>
NoVectors == <<>>
\* no QueryEngine built
NoEngine == [NumDocuments |-> 0, IncludeMetadata |-> FALSE, PromptTemplate |-> <<>>,
             Provider |-> "none"]

\* a map with no entry
NoEntries == <<>>
\* no MemoryCache built
NoCache == [entries |-> NoEntries, ttl |-> 0, maxEntries |-> 0]

StoreFrame == UNCHANGED <<rag, mu, procs, hist, ck, sDocuments, sVectors, qe, cache, now, live>>

InitStore ==
    /\ chunks = <<>>
    /\ rag \in ValidConfigs
    /\ last = NoCall
    /\ mu = IdleMu
    /\ procs = IdleProcs
    /\ hist = IdleHist
    /\ ck = IdleCk
    /\ sDocuments = NoDocuments
    /\ sVectors = NoVectors
    /\ qe = NoEngine
    /\ cache = NoCache
    /\ now = 0
    /\ live = NoEntries

DoAddChunks ==
    \E batch \in Batches :
        /\ Len(chunks) + Len(batch) <= MaxChunks
        /\ LET r == AddChunks(chunks, batch)
           IN  /\ chunks' = r.store
               /\ last' = Call("AddChunks", chunks, batch,
                               [err |-> r.err, ret |-> <<>>, calls |-> <<>>, panic |-> FALSE])
        /\ StoreFrame

DoSimilaritySearch ==
    \E embedding \in QueryVectors, limit \in Limits :
        \E r \in SimilaritySearch(chunks, embedding, limit) :
            /\ last' = Call("SimilaritySearch", chunks,
                            [embedding |-> embedding, limit |-> limit],
                            [err |-> r.err, ret |-> r.ret, calls |-> <<>>, panic |-> r.panic])
            /\ UNCHANGED chunks
            /\ StoreFrame

DoDelete ==
    \E ids \in DeleteIDs :
        /\ LET r == Delete(chunks, ids)
           IN  /\ chunks' = r.store
               /\ last' = Call("Delete", chunks, ids,
                               [err |-> r.err, ret |-> <<>>, calls |-> <<>>, panic |-> FALSE])
        /\ StoreFrame

DoClear ==
    /\ LET r == Clear(chunks)
       IN  /\ chunks' = r.store
           /\ last' = Call("Clear", chunks, <<>>,
                           [err |-> r.err, ret |-> <<>>, calls |-> <<>>, panic |-> FALSE])
    /\ StoreFrame

DoAddDocument ==
    \E document \in Documents :
        \E r \in AddDocument(chunks, rag, document) :
            /\ Len(r.store) <= MaxChunks
            /\ chunks' = r.store
            /\ last' = Call("AddDocument", chunks, document,
                            [err |-> r.err, ret |-> <<>>, calls |-> Tag(r.calls, 1),
                             panic |-> FALSE])
            /\ StoreFrame

DoAddDocuments ==
    \E documents \in SeqsUpTo(Documents, MaxDocs) :
        \E r \in AddDocuments(chunks, rag, documents) :
            /\ Len(r.store) <= MaxChunks
            /\ chunks' = r.store
            /\ last' = Call("AddDocuments", chunks, documents,
                            [err |-> r.err, ret |-> <<>>, calls |-> r.calls, panic |-> FALSE])
            /\ StoreFrame

NextStore ==
    \/ DoAddChunks
    \/ DoSimilaritySearch
    \/ DoDelete
    \/ DoClear

SpecStore == InitStore /\ [][NextStore]_vars

(***************************************************************************)
(* SpecDoc: one caller at a time adding single documents through the       *)
(* orchestrator to a store that is also written directly and cleared.      *)
(***************************************************************************)
NextDoc ==
    \/ DoAddDocument
    \/ DoAddChunks
    \/ DoClear

SpecDoc == InitStore /\ [][NextDoc]_vars

(***************************************************************************)
(* SpecIngest: one caller at a time ingesting batches of documents.        *)
(***************************************************************************)
NextIngest ==
    \/ DoAddDocuments
    \/ DoClear

SpecIngest == InitStore /\ [][NextIngest]_vars

(***************************************************************************)
(* Properties of the store and the orchestrator, one caller at a time.     *)
(***************************************************************************)
\* the similarity of the chunk at position i of the store searched by the last call
LastSim(i) == cosineSimilarity(last.arg.embedding, last.pre[i].Embedding)

\* a store whose chunks all have embeddings of one length
Uniform(store) ==
    \A i, j \in 1..Len(store) : Len(store[i].Embedding) = Len(store[j].Embedding)

\* the error kind the specification names for a chunk of the wrong dimension
DimensionMismatchError == <<"dimension mismatch">>

\* C1: AddChunks of a batch into a non-empty store of one dimension, where some
\* chunk of the batch has an embedding of another length, returns
\* DimensionMismatchError and leaves the stored sequence as it was.
C1_MismatchRejected ==
    ( /\ last.op = "AddChunks"
      /\ last.pre # <<>>
      /\ Uniform(last.pre)
      /\ \E c \in Range(last.arg) : Len(c.Embedding) # Len(last.pre[1].Embedding) )
    => (last.err = DimensionMismatchError /\ chunks = last.pre)

\* C2: in every reachable state of the store all stored chunks have embeddings of
\* the same length.
C2_UniformDimension == Uniform(chunks)

\* C3: a search with limit k >= 0 over n stored chunks returns min(k, n) distinct
\* stored chunks in non-increasing order of similarity, none of them less similar
\* than a stored chunk that is not returned.
C3_SearchTopK ==
    (last.op = "SimilaritySearch" /\ last.arg.limit >= 0)
    => LET n == Len(last.pre)
           r == last.ret
       IN  /\ ~last.panic
           /\ last.err = Nil
           /\ Len(r) = Min(last.arg.limit, n)
           /\ \A i \in 1..Len(r) : r[i] \in 1..n
           /\ \A i, j \in 1..Len(r) : i # j => r[i] # r[j]
           /\ \A i, j \in 1..Len(r) : i < j => ~ScoreGreater(LastSim(r[j]), LastSim(r[i]))
           /\ \A i \in 1..Len(r) : \A m \in (1..n) \ Range(r) :
                  ~ScoreGreater(LastSim(m), LastSim(r[i]))

\* a search that ranks: fewer chunks asked for than stored, of differing similarity
C3_Witness ==
    /\ last.op = "SimilaritySearch"
    /\ Len(last.pre) = 3
    /\ last.arg.limit = 2
    /\ Len(last.ret) = 2
    /\ ScoreGreater(LastSim(last.ret[1]), LastSim(last.ret[2]))
    /\ \E m \in 1..3 : m \notin Range(last.ret) /\ ScoreGreater(LastSim(last.ret[2]), LastSim(m))
    /\ last.ret[1] # 1

\* C4: chunks of equal similarity are returned in insertion order: a returned chunk
\* precedes, in the store, every equally similar chunk returned after it or not
\* returned at all.
C4_StableTies ==
    (last.op = "SimilaritySearch" /\ last.arg.limit >= 0)
    => LET n == Len(last.pre)
           r == last.ret
           tie(a, b) == ~ScoreGreater(LastSim(a), LastSim(b)) /\ ~ScoreGreater(LastSim(b), LastSim(a))
       IN  /\ \A i, j \in 1..Len(r) : (i < j /\ tie(r[i], r[j])) => r[i] < r[j]
           /\ \A i \in 1..Len(r) : \A m \in (1..n) \ Range(r) : tie(r[i], m) => r[i] < m

\* C5: when a provider call fails during AddDocument, AddDocument returns an error
\* and the store holds exactly the chunks it held before the call.
C5_AddDocumentAllOrNothing ==
    (last.op = "AddDocument" /\ \E i \in 1..Len(last.calls) : ~last.calls[i].ok)
    => (last.err # Nil /\ chunks = last.pre)

\* AddDocument on a non-empty store failing on its second chunk, the first embedded
C5_Witness ==
    /\ last.op = "AddDocument"
    /\ last.pre # <<>>
    /\ last.arg.HasEmbedding
    /\ Len(last.calls) = 2
    /\ last.calls[1].ok
    /\ ~last.calls[2].ok
    /\ last.err = Wrap("failed to embed chunk", GatewayError)
    /\ chunks = last.pre

\* an error names a document when the document's ID is part of its message chain
ErrorNames(err, document) == \E k \in 1..Len(err) : err[k] = document.ID

\* chunks without their embeddings
Bare(cs) == [i \in 1..Len(cs) |-> [cs[i] EXCEPT !.Embedding = <<>>]]

RECURSIVE ChunksOfFirst(_, _, _)
\* the chunks of the first k documents, in order
ChunksOfFirst(cfg, documents, k) ==
    IF k = 0 THEN <<>>
    ELSE ChunksOfFirst(cfg, documents, k - 1)
         \o chunkDocument(documents[k], cfg.ChunkSize, cfg.ChunkOverlap)

\* the document AddDocuments was working on when it returned an error
FailedDoc == last.calls[Len(last.calls)].doc

\* AddDocuments stops at the first failing document i: earlier documents' chunks are
\* stored, nothing of document i or later is, no provider call is made for a later one
C6_StopsAtFirstFailure ==
    (last.op = "AddDocuments" /\ last.err # Nil)
    => /\ ~last.calls[Len(last.calls)].ok
       /\ \A c \in 1..Len(last.calls) - 1 : last.calls[c].ok
       /\ \A c \in 1..Len(last.calls) : last.calls[c].doc <= FailedDoc
       /\ Bare(chunks) = Bare(last.pre) \o ChunksOfFirst(rag, last.arg, FailedDoc - 1)

\* C6: AddDocuments handles the documents in order; when AddDocument fails for
\* document i it stops with an error that identifies document i, the chunks of the
\* documents before i remain, nothing of document i or later is inserted and no
\* provider call is made for a later document.
C6_StopsAndNamesDocument ==
    (last.op = "AddDocuments" /\ last.err # Nil)
    => /\ C6_StopsAtFirstFailure
       /\ ErrorNames(last.err, last.arg[FailedDoc])

(***************************************************************************)
(* SpecChunk: NewRAG followed by chunkDocument calls, one loop pass per    *)
(* step.                                                                   *)
(***************************************************************************)
\* the largest chunk size and overlap passed to WithChunkSize / WithChunkOverlap
MaxSizeOpt == 3
\* the longest content handed to chunkDocument
MaxChunkLen == 6

\* the most chunks a call is followed for: more than any content has bytes
ChunkCap == MaxChunkLen + 1

\* the options of a NewRAG call: a size or overlap that is not passed is its default
RAGOptions ==
    [ChunkSize    : ((-1)..MaxSizeOpt) \cup {DefaultChunkSize},
     ChunkOverlap : (0..MaxSizeOpt) \cup {DefaultChunkOverlap},
     VectorStore  : BOOLEAN,
     Embeddings   : BOOLEAN]

\* NewRAG(options...): the only checks are that a store and a provider are given
NewRAG(o) ==
    IF ~o.VectorStore THEN [rag |-> IdleConfig, err |-> <<"vector store is required">>]
    ELSE IF ~o.Embeddings
    THEN [rag |-> IdleConfig, err |-> <<"embeddings provider is required">>]
    ELSE [rag |-> [ChunkSize |-> o.ChunkSize, ChunkOverlap |-> o.ChunkOverlap,
                   TopK |-> DefaultTopK],
          err |-> Nil]

ChunkDocs ==
    [ID : {"d1"}, Content : {SubSeq(Text, 1, n) : n \in 0..MaxChunkLen}, HasEmbedding : {FALSE}]

NoDoc == [ID |-> "", Content |-> <<>>, HasEmbedding |-> FALSE]

ChunkFrame == UNCHANGED <<chunks, last, mu, procs, hist, sDocuments, sVectors, qe, cache, now, live>>

InitChunk ==
    /\ chunks = <<>>
    /\ rag = IdleConfig
    /\ last = NoCall
    /\ mu = IdleMu
    /\ procs = IdleProcs
    /\ hist = IdleHist
    /\ ck = [pc |-> "new", document |-> NoDoc, i |-> 0, out |-> <<>>, err |-> Nil]
    /\ sDocuments = NoDocuments
    /\ sVectors = NoVectors
    /\ qe = NoEngine
    /\ cache = NoCache
    /\ now = 0
    /\ live = NoEntries

CkNewRAG ==
    /\ ck.pc = "new"
    /\ \E o \in RAGOptions :
          LET r == NewRAG(o)
          IN  /\ rag' = r.rag
              /\ ck' = [ck EXCEPT !.pc = IF r.err = Nil THEN "ready" ELSE "rejected",
                                  !.err = r.err]
    /\ ChunkFrame

CkCall ==
    /\ ck.pc = "ready"
    /\ \E document \in ChunkDocs :
          LET st == chunkBegin(document, rag.ChunkSize)
          IN  ck' = [ck EXCEPT !.pc = st.pc, !.document = document,
                               !.i = st.i, !.out = st.out]
    /\ UNCHANGED rag
    /\ ChunkFrame

CkIterate ==
    /\ ck.pc = "loop"
    /\ Len(ck.out) < ChunkCap
    /\ LET st == chunkIterate(ck.document, rag.ChunkSize, rag.ChunkOverlap,
                              [pc |-> ck.pc, i |-> ck.i, out |-> ck.out])
       IN  ck' = [ck EXCEPT !.pc = st.pc, !.i = st.i, !.out = st.out]
    /\ UNCHANGED rag
    /\ ChunkFrame

CkReturn ==
    /\ ck.pc = "done"
    /\ ck' = [ck EXCEPT !.pc = "ready", !.document = NoDoc, !.i = 0, !.out = <<>>]
    /\ UNCHANGED rag
    /\ ChunkFrame

NextChunk ==
    \/ CkNewRAG
    \/ CkCall
    \/ CkIterate
    \/ CkReturn

SpecChunk == InitChunk /\ [][NextChunk]_vars

(***************************************************************************)
(* Properties of the chunker.                                              *)
(***************************************************************************)
\* a call of chunkDocument is under way or has just ended
InCall == ck.pc \in {"loop", "done", "panic"}

\* chunk_size > 0 and 0 <= chunk_overlap < chunk_size
ValidChunking == rag.ChunkSize > 0 /\ 0 <= rag.ChunkOverlap /\ rag.ChunkOverlap < rag.ChunkSize

\* the end of the j-th window (j = 0, 1, ...), not clipped
WindowEnd(j) == j * (rag.ChunkSize - rag.ChunkOverlap) + rag.ChunkSize

\* content[j*s .. min(j*s + chunk_size, len(content)))
Window(j) ==
    SubSeq(ck.document.Content, j * (rag.ChunkSize - rag.ChunkOverlap) + 1,
           Min(WindowEnd(j), Len(ck.document.Content)))

\* C9: under a valid configuration and a content longer than chunk_size, the j-th
\* chunk emitted is the j-th window; every chunk but the last has length
\* chunk_size; the loop goes on exactly while no window has reached the end of the
\* content, and ends, without a panic, with the first window that does.
C9_SlidingWindows ==
    (InCall /\ ValidChunking /\ Len(ck.document.Content) > rag.ChunkSize)
    => LET n == Len(ck.document.Content)
           m == Len(ck.out)
       IN  /\ ck.pc # "panic"
           /\ \A j \in 1..m : ck.out[j].Content = Window(j - 1)
           /\ \A j \in 1..(m - 1) : Len(ck.out[j].Content) = rag.ChunkSize /\ WindowEnd(j - 1) < n
           /\ ck.pc = "loop" => (m < n /\ m < ChunkCap /\ \A j \in 1..m : WindowEnd(j - 1) < n)
           /\ ck.pc = "done" => (m >= 1 /\ WindowEnd(m - 1) >= n)

\* a finished call with overlapping windows whose last chunk is clipped
C9_Witness ==
    /\ ck.pc = "done"
    /\ ValidChunking
    /\ rag.ChunkOverlap > 0
    /\ Len(ck.out) = 3
    /\ Len(ck.out[3].Content) < rag.ChunkSize
    /\ ck.out[2].Content = <<"c", "d", "e">>

\* chunk_overlap >= chunk_size, or chunk_size <= 0
InvalidChunking == rag.ChunkOverlap >= rag.ChunkSize \/ rag.ChunkSize <= 0

\* C10: a configuration with chunk_overlap >= chunk_size or chunk_size <= 0 is
\* rejected by NewRAG with a configuration error, so no document is ever split
\* under it: no chunk is produced, no loop runs on, nothing panics.
C10_InvalidConfigRejected ==
    (ck.pc # "new" /\ InvalidChunking) => (ck.pc = "rejected" /\ ck.err # Nil)

\* chunkDocument panics under an accepted configuration
C10_Panics == ck.pc = "panic"

\* chunkDocument is still looping after more chunks than the content has bytes
C10_RunsOn == ck.pc = "loop" /\ Len(ck.out) > Len(ck.document.Content)

(***************************************************************************)
(* SpecConc: goroutines calling one MemoryVectorStore concurrently.        *)
(*                                                                         *)
(* Each goroutine makes one call. A call is its s.mu.Lock(), the loads and *)
(* stores of s.chunks its body makes, and the deferred s.mu.Unlock(), each *)
(* a step of its own, so that calls interleave wherever the lock lets      *)
(* them. hist is the store after each mutation, in the order the           *)
(* mutations wrote s.chunks, computed as if each call were one step.       *)
(***************************************************************************)
Procs == {"g1", "g2", "g3"}

\* the store the goroutines start on
ConcStores == {<<>>, <<MkChunk("c1", "x", <<"a">>, <<1, 0>>)>>}

\* the calls a goroutine may make
ConcBatches ==
    { <<MkChunk("c2", "x", <<"b">>, <<0, 1>>)>>,
      <<MkChunk("c3", "y", <<"c">>, <<1>>), MkChunk("c1", "x", <<"a">>, <<1, 0>>)>> }

ConcCalls ==
    [op : {"AddChunks"}, arg : ConcBatches]
    \cup [op : {"SimilaritySearch"}, arg : [embedding : {<<1, 0>>}, limit : {1, 2}]]
    \cup [op : {"Delete"}, arg : {{"c1"}}]
    \cup [op : {"Clear"}, arg : {<<>>}]

IdleProc == [pc |-> "idle", op |-> "none", arg |-> <<>>, tmp |-> <<>>, ret |-> <<>>,
             lo |-> 0, hi |-> 0, overlap |-> FALSE]

\* sync.Mutex.Lock by goroutine p: waits until the mutex is free
muLock(p) == mu = IdleMu /\ mu' = p

\* an Unlock that leaves the mutex with its holder
muUnlockKeeping == mu' = mu

\* sync.Mutex.Unlock
muUnlock == mu' = IdleMu

\* the s.mu.Lock() of AddChunks
lockAddChunks(p) == muLock(p)

\* the s.mu.Lock() of SimilaritySearch
lockSimilaritySearch(p) == muLock(p)

\* the s.mu.Lock() of Delete
lockDelete(p) == muLock(p)

\* the s.mu.Lock() of Clear
lockClear(p) == muLock(p)

\* some goroutine is inside a call
Busy(q) == procs[q].pc \notin {"idle", "done"}

InitConc ==
    /\ chunks \in ConcStores
    /\ rag = IdleConfig
    /\ last = NoCall
    /\ mu = IdleMu
    /\ procs = [p \in Procs |-> IdleProc]
    /\ hist = <<chunks>>
    /\ ck = IdleCk
    /\ sDocuments = NoDocuments
    /\ sVectors = NoVectors
    /\ qe = NoEngine
    /\ cache = NoCache
    /\ now = 0
    /\ live = NoEntries

ConcFrame == UNCHANGED <<rag, last, ck, sDocuments, sVectors, qe, cache, now, live>>

\* goroutine p enters a call
GoCall(p) ==
    /\ procs[p].pc = "idle"
    /\ \E c \in ConcCalls :
          procs' = [procs EXCEPT ![p] =
                       [@ EXCEPT !.pc = "lock", !.op = c.op, !.arg = c.arg,
                                 !.lo = Len(hist),
                                 !.overlap = \E q \in Procs \ {p} : Busy(q)]]
    /\ UNCHANGED <<chunks, mu, hist>>
    /\ ConcFrame

\* s.mu.Lock(); defer s.mu.Unlock()
GoLock(p) ==
    /\ procs[p].pc = "lock"
    /\ \/ procs[p].op = "AddChunks" /\ lockAddChunks(p)
       \/ procs[p].op = "SimilaritySearch" /\ lockSimilaritySearch(p)
       \/ procs[p].op = "Delete" /\ lockDelete(p)
       \/ procs[p].op = "Clear" /\ lockClear(p)
    /\ procs' = [procs EXCEPT ![p].pc =
                    IF procs[p].op \in {"AddChunks", "Delete"} THEN "load"
                    ELSE IF procs[p].op = "Clear" THEN "store" ELSE "search"]
    /\ UNCHANGED <<chunks, hist>>
    /\ ConcFrame

\* the load of s.chunks in append(s.chunks, chunks...) and in Delete's range loop
GoLoad(p) ==
    /\ procs[p].pc = "load"
    /\ procs' = [procs EXCEPT ![p].pc = "store", ![p].tmp = chunks]
    /\ UNCHANGED <<chunks, mu, hist>>
    /\ ConcFrame

\* what the call of p makes of a store it has loaded as store
Applied(p, store) ==
    IF procs[p].op = "AddChunks" THEN AddChunks(store, procs[p].arg).store
    ELSE IF procs[p].op = "Delete" THEN Delete(store, procs[p].arg).store
    ELSE Clear(store).store

\* the assignment to s.chunks
GoStore(p) ==
    /\ procs[p].pc = "store"
    /\ chunks' = Applied(p, procs[p].tmp)
    /\ hist' = Append(hist, Applied(p, hist[Len(hist)]))
    /\ procs' = [procs EXCEPT ![p].pc = "unlock"]
    /\ UNCHANGED mu
    /\ ConcFrame

\* the body of SimilaritySearch: ranges over s.chunks, sorts, copies the result
GoSearch(p) ==
    /\ procs[p].pc = "search"
    /\ \E r \in SimilaritySearch(chunks, procs[p].arg.embedding, procs[p].arg.limit) :
          procs' = [procs EXCEPT ![p].pc = "unlock",
                                 ![p].ret = [i \in 1..Len(r.ret) |-> chunks[r.ret[i]]]]
    /\ UNCHANGED <<chunks, mu, hist>>
    /\ ConcFrame

\* the deferred s.mu.Unlock() and the return
GoUnlock(p) ==
    /\ procs[p].pc = "unlock"
    /\ muUnlock
    /\ procs' = [procs EXCEPT ![p].pc = "done", ![p].hi = Len(hist)]
    /\ UNCHANGED <<chunks, hist>>
    /\ ConcFrame

NextConc ==
    \E p \in Procs :
        \/ GoCall(p)
        \/ GoLock(p)
        \/ GoLoad(p)
        \/ GoStore(p)
        \/ GoSearch(p)
        \/ GoUnlock(p)

SpecConc == InitConc /\ [][NextConc]_vars

(***************************************************************************)
(* The string-keyed MemoryVectorStore of the same package: two slices,     *)
(* documents and vectors, an embedding provider, and no mutex.             *)
(***************************************************************************)
\* the documents goroutines hand to the string-keyed store
StrDoc(id, content) == [ID |-> id, Content |-> content]

\* EmbeddingProvider.EmbedQuery / EmbedDocuments when the provider answers: one
\* vector per text, all of one dimension
embedText(text) ==
    IF text = <<"a">> THEN <<1, 0>> ELSE IF text = <<"b">> THEN <<0, 1>> ELSE <<1, 1>>

\* a store value: the two slices
StrStore(docs, vecs) == [documents |-> docs, vectors |-> vecs]

\* cosineSimilarity of the string-keyed file: the same quotient, with no check
\* of the lengths (the provider's vectors all have one dimension)
strCosineSimilarity(a, b) ==
    LET dotProduct == Dot(a, b)
        magA == Dot(a, a)
        magB == Dot(b, b)
    IN  IF magA = 0 \/ magB = 0 THEN ZeroScore
        ELSE [num |-> Sgn(dotProduct) * dotProduct * dotProduct, den |-> magA * magB]

\* the similarities slice: one per stored vector
strSimilarities(vecs, queryVector) ==
    [i \in 1..Len(vecs) |-> strCosineSimilarity(queryVector, vecs[i])]

\* topK(values, k): sort.Slice of the indices by values, highest first, cut to k
topK(values, k) == {Take(p, k) : p \in sortSlice(values)}

\* the last loop of SimilaritySearch: results[i] = s.documents[idx], which
\* panics on an index past the end of s.documents
strCollect(docs, indices) ==
    IF \E i \in 1..Len(indices) : indices[i] > Len(docs)
    THEN [panic |-> TRUE, ret |-> <<>>, err |-> Nil]
    ELSE [panic |-> FALSE, ret |-> [i \in 1..Len(indices) |-> docs[indices[i]]], err |-> Nil]

\* SimilaritySearch(ctx, query, k) run alone on a store: its possible outcomes
StrSimilaritySearch(store, query, k) ==
    IF Len(store.documents) = 0
    THEN {[panic |-> FALSE, ret |-> <<>>, err |-> <<"no documents in the store">>]}
    ELSE {[panic |-> FALSE, ret |-> <<>>, err |-> Wrap("failed to embed query", GatewayError)]}
         \cup {strCollect(store.documents, ix) :
                  ix \in topK(strSimilarities(store.vectors, embedText(query)), k)}

\* AddDocuments(ctx, docs) run alone on a store, the provider answering
StrAddDocuments(store, docs) ==
    StrStore(store.documents \o docs,
             store.vectors \o [i \in 1..Len(docs) |-> embedText(docs[i].Content)])

\* Clear(ctx) run alone
StrClear(store) == StrStore(<<>>, <<>>)

(***************************************************************************)
(* SpecRace: goroutines calling one string-keyed MemoryVectorStore.        *)
(*                                                                         *)
(* No method takes a lock, so the loads and stores of s.documents and      *)
(* s.vectors of different calls interleave freely. A step is one load or   *)
(* one store of a slice header; every behaviour here is an execution of    *)
(* the code (a torn slice header, which the Go memory model also allows,   *)
(* is not modelled).                                                       *)
(***************************************************************************)
RaceStores == {StrStore(<<>>, <<>>),
               StrStore(<<StrDoc("r1", <<"a">>)>>, <<embedText(<<"a">>)>>)}

RaceBatches == { <<StrDoc("r2", <<"b">>)>>,
                 <<StrDoc("r3", <<"c">>), StrDoc("r4", <<"a">>)>> }

RaceCalls ==
    [op : {"AddDocuments"}, arg : RaceBatches]
    \cup [op : {"SimilaritySearch"}, arg : [query : {<<"a">>}, k : {1, 2}]]
    \cup [op : {"Clear"}, arg : {<<>>}]

RaceProc == [pc |-> "idle", op |-> "none", arg |-> <<>>, tmp |-> <<>>, vecs |-> <<>>,
             ret |-> <<>>, err |-> Nil, panic |-> FALSE]

InitRace ==
    /\ chunks = <<>>
    /\ rag = IdleConfig
    /\ last = NoCall
    /\ mu = IdleMu
    /\ procs = [p \in Procs |-> RaceProc]
    /\ \E s \in RaceStores :
          /\ sDocuments = s.documents
          /\ sVectors = s.vectors
          /\ hist = <<s>>
    /\ ck = IdleCk
    /\ qe = NoEngine
    /\ cache = NoCache
    /\ now = 0
    /\ live = NoEntries

RaceFrame == UNCHANGED <<chunks, rag, last, mu, hist, ck, qe, cache, now, live>>

\* goroutine p enters a call
RcCall(p) ==
    /\ procs[p].pc = "idle"
    /\ \E c \in RaceCalls :
          procs' = [procs EXCEPT ![p] =
                       [@ EXCEPT !.op = c.op, !.arg = c.arg,
                                 !.pc = IF c.op = "AddDocuments" THEN "embed"
                                        ELSE IF c.op = "Clear" THEN "clearDocuments"
                                        ELSE "check"]]
    /\ UNCHANGED <<sDocuments, sVectors>>
    /\ RaceFrame

\* AddDocuments: vectors, err := s.embeddings.EmbedDocuments(ctx, texts)
RcEmbed(p) ==
    /\ procs[p].pc = "embed"
    /\ \/ procs' = [procs EXCEPT ![p].pc = "done",
                                 ![p].err = Wrap("failed to embed documents", GatewayError)]
       \/ procs' = [procs EXCEPT ![p].pc = "loadDocuments",
                                 ![p].vecs = [i \in 1..Len(procs[p].arg) |->
                                                 embedText(procs[p].arg[i].Content)]]
    /\ UNCHANGED <<sDocuments, sVectors>>
    /\ RaceFrame

\* AddDocuments: the load of s.documents in append(s.documents, docs...)
RcLoadDocuments(p) ==
    /\ procs[p].pc = "loadDocuments"
    /\ procs' = [procs EXCEPT ![p].pc = "storeDocuments", ![p].tmp = sDocuments]
    /\ UNCHANGED <<sDocuments, sVectors>>
    /\ RaceFrame

\* AddDocuments: s.documents = append(...)
RcStoreDocuments(p) ==
    /\ procs[p].pc = "storeDocuments"
    /\ sDocuments' = procs[p].tmp \o procs[p].arg
    /\ procs' = [procs EXCEPT ![p].pc = "loadVectors"]
    /\ UNCHANGED sVectors
    /\ RaceFrame

\* AddDocuments: the load of s.vectors in append(s.vectors, vectors...)
RcLoadVectors(p) ==
    /\ procs[p].pc = "loadVectors"
    /\ procs' = [procs EXCEPT ![p].pc = "storeVectors", ![p].tmp = sVectors]
    /\ UNCHANGED <<sDocuments, sVectors>>
    /\ RaceFrame

\* AddDocuments: s.vectors = append(...); return nil
RcStoreVectors(p) ==
    /\ procs[p].pc = "storeVectors"
    /\ sVectors' = procs[p].tmp \o procs[p].vecs
    /\ procs' = [procs EXCEPT ![p].pc = "done"]
    /\ UNCHANGED sDocuments
    /\ RaceFrame

\* SimilaritySearch: the test len(s.documents) == 0 and the EmbedQuery call
RcCheck(p) ==
    /\ procs[p].pc = "check"
    /\ IF Len(sDocuments) = 0
       THEN procs' = [procs EXCEPT ![p].pc = "done",
                                   ![p].err = <<"no documents in the store">>]
       ELSE \/ procs' = [procs EXCEPT ![p].pc = "done",
                                      ![p].err = Wrap("failed to embed query", GatewayError)]
            \/ procs' = [procs EXCEPT ![p].pc = "scan"]
    /\ UNCHANGED <<sDocuments, sVectors>>
    /\ RaceFrame

\* SimilaritySearch: the loop over s.vectors and topK(similarities, k)
RcScan(p) ==
    /\ procs[p].pc = "scan"
    /\ \E ix \in topK(strSimilarities(sVectors, embedText(procs[p].arg.query)),
                      procs[p].arg.k) :
          procs' = [procs EXCEPT ![p].pc = "collect", ![p].tmp = ix]
    /\ UNCHANGED <<sDocuments, sVectors>>
    /\ RaceFrame

\* SimilaritySearch: results[i] = s.documents[idx]; return results, nil
RcCollect(p) ==
    /\ procs[p].pc = "collect"
    /\ LET r == strCollect(sDocuments, procs[p].tmp)
       IN  procs' = [procs EXCEPT ![p].pc = "done", ![p].ret = r.ret,
                                  ![p].panic = r.panic]
    /\ UNCHANGED <<sDocuments, sVectors>>
    /\ RaceFrame

\* Clear: s.documents = make([]*Document, 0)
RcClearDocuments(p) ==
    /\ procs[p].pc = "clearDocuments"
    /\ sDocuments' = StrClear(StrStore(sDocuments, sVectors)).documents
    /\ procs' = [procs EXCEPT ![p].pc = "clearVectors"]
    /\ UNCHANGED sVectors
    /\ RaceFrame

\* Clear: s.vectors = make([][]float32, 0); return nil
RcClearVectors(p) ==
    /\ procs[p].pc = "clearVectors"
    /\ sVectors' = StrClear(StrStore(sDocuments, sVectors)).vectors
    /\ procs' = [procs EXCEPT ![p].pc = "done"]
    /\ UNCHANGED sDocuments
    /\ RaceFrame

NextRace ==
    \E p \in Procs :
        \/ RcCall(p)
        \/ RcEmbed(p)
        \/ RcLoadDocuments(p)
        \/ RcStoreDocuments(p)
        \/ RcLoadVectors(p)
        \/ RcStoreVectors(p)
        \/ RcCheck(p)
        \/ RcScan(p)
        \/ RcCollect(p)
        \/ RcClearDocuments(p)
        \/ RcClearVectors(p)

SpecRace == InitRace /\ [][NextRace]_vars

(***************************************************************************)
(* Concurrent callers of one in-memory store.                              *)
(***************************************************************************)
\* the orders in which the goroutines of S can be lined up
Orders(S) ==
    {f \in [1..Cardinality(S) -> S] :
        \A i, j \in 1..Cardinality(S) : i # j => f[i] # f[j]}

AllReturned == \A p \in Procs : procs[p].pc = "done"

\* what the call of goroutine p makes of a string-keyed store when run alone
StrApplied(store, p) ==
    IF procs[p].op = "AddDocuments" THEN StrAddDocuments(store, procs[p].arg)
    ELSE IF procs[p].op = "Clear" THEN StrClear(store)
    ELSE store

RECURSIVE StrAppliedAll(_, _, _)
\* the calls of f[i], f[i+1], ... run one after the other on store
StrAppliedAll(store, f, i) ==
    IF i > Len(f) THEN store ELSE StrAppliedAll(StrApplied(store, f[i]), f, i + 1)

RECURSIVE AppliedAll(_, _, _)
\* the same for the mutex-guarded store
AppliedAll(store, f, i) ==
    IF i > Len(f) THEN store ELSE AppliedAll(Applied(f[i], store), f, i + 1)

\* the goroutines whose AddDocuments returned nil
StrInserted == {p \in Procs : procs[p].op = "AddDocuments" /\ procs[p].err = Nil}

\* the string-keyed store as one value
StrNow == StrStore(sDocuments, sVectors)

\* C7: when several callers insert concurrently into the same in-memory store
\* (no caller clearing it), then after all calls have returned the store holds the
\* initial content followed by every inserted batch exactly once, each batch
\* contiguous and in batch order, the batches in some order: no append is lost and
\* no two batches are interleaved. Stated of the package's string-keyed
\* MemoryVectorStore (AddDocuments), whose methods take no lock.
C7_ConcurrentInsertsKept ==
    (AllReturned /\ \A p \in Procs : procs[p].op # "Clear")
        => \E f \in Orders(StrInserted) : StrNow = StrAppliedAll(hist[1], f, 1)

\* two inserts have returned nil after running side by side
C7_TwoInsertsReturned ==
    /\ AllReturned
    /\ \A p \in Procs : procs[p].op # "Clear"
    /\ Cardinality(StrInserted) >= 2

\* the same property of the mutex-guarded, embedding-keyed MemoryVectorStore
\* (AddChunks under s.mu), where it holds
MutexInsertsKept ==
    (AllReturned /\ \A p \in Procs : procs[p].op \in {"AddChunks", "SimilaritySearch"})
        => \E f \in Orders({p \in Procs : procs[p].op = "AddChunks"}) :
              chunks = AppliedAll(hist[1], f, 1)

\* under the mutex, the store is always what the mutations made of it one by one
MutexStoreIsHistory == mu = IdleMu => chunks = hist[Len(hist)]

\* the mutating calls entered so far on the string-keyed store
StrMutators == {p \in Procs : procs[p].op \in {"AddDocuments", "Clear"}}

\* every store some of the entered mutating calls, each run alone and entirely,
\* lead to from the initial store
StrAtomicStores ==
    UNION {{StrAppliedAll(hist[1], f, 1) : f \in Orders(T)} : T \in SUBSET StrMutators}

\* what a returned call gave its caller
Outcome(p) == [panic |-> procs[p].panic, ret |-> procs[p].ret, err |-> procs[p].err]

\* a search that has returned
Searched(p) == procs[p].pc = "done" /\ procs[p].op = "SimilaritySearch"

\* C8: store operations are atomic with respect to each other: a search running
\* concurrently with inserts and clears returns an outcome that the search has on
\* a store in which each of those operations has happened entirely or not at all,
\* never one computed from a partially applied insert or clear. Stated of the
\* package's string-keyed MemoryVectorStore, whose methods take no lock.
C8_SearchSeesWholeOperations ==
    \A p \in Procs :
        Searched(p) =>
            \E s \in StrAtomicStores :
                Outcome(p) \in StrSimilaritySearch(s, procs[p].arg.query, procs[p].arg.k)

\* a search has returned while a Clear had written one of the two slices only
C8_SearchOverHalfClear ==
    \E p, q \in Procs :
        /\ Searched(p)
        /\ procs[q].op = "Clear" /\ procs[q].pc = "clearVectors"

\* the same property of the mutex-guarded store, where it holds: a returned
\* search gave what SimilaritySearch gives on the store as it was after some
\* whole number of the mutations, between its call and its return
MutexSearchSeesWholeOperations ==
    \A p \in Procs :
        (procs[p].pc = "done" /\ procs[p].op = "SimilaritySearch") =>
            \E i \in procs[p].lo..procs[p].hi :
                \E r \in SimilaritySearch(hist[i], procs[p].arg.embedding, procs[p].arg.limit) :
                    procs[p].ret = [n \in 1..Len(r.ret) |-> hist[i][r.ret[n]]]

\* a mutex-guarded search has returned that ran side by side with another call
MutexSearchOverlapped ==
    \E p \in Procs :
        /\ procs[p].pc = "done" /\ procs[p].op = "SimilaritySearch"
        /\ procs[p].overlap
        /\ procs[p].hi > procs[p].lo

(***************************************************************************)
(* Coverage and count of the chunks of one document.                       *)
(***************************************************************************)
\* a call of chunkDocument has returned
Returned == ck.pc = "done"

RECURSIVE Reassemble(_, _)
\* the first s bytes of every chunk but the last, then the whole last chunk
Reassemble(cs, s) ==
    IF Len(cs) = 0 THEN <<>>
    ELSE IF Len(cs) = 1 THEN cs[1].Content
    ELSE Take(cs[1].Content, s) \o Reassemble(Tail(cs), s)

\* C11: lossless coverage. For a content longer than chunk_size under a valid
\* configuration, the first chunk_size - chunk_overlap bytes of every chunk but
\* the last, followed by the whole last chunk, are the content exactly.
C11_LosslessCoverage ==
    (Returned /\ ValidChunking /\ Len(ck.document.Content) > rag.ChunkSize)
    => Reassemble(ck.out, rag.ChunkSize - rag.ChunkOverlap) = ck.document.Content

\* a returned call with overlapping windows, at least three chunks, the last a
\* full window
C11_Witness ==
    /\ Returned
    /\ ValidChunking
    /\ rag.ChunkOverlap > 0
    /\ Len(ck.out) >= 3
    /\ Len(ck.out[Len(ck.out)].Content) = rag.ChunkSize
    /\ Reassemble(ck.out, rag.ChunkSize - rag.ChunkOverlap) = ck.document.Content

\* ceil(a / b) for b > 0
CeilDiv(a, b) == (a + b - 1) \div b

\* C12: the number of chunks. For a content longer than chunk_size and
\* 0 <= chunk_overlap < chunk_size it is
\* ceil((len(content) - chunk_overlap) / (chunk_size - chunk_overlap)); for a
\* content no longer than chunk_size (the empty content too) it is exactly 1.
C12_ChunkCount ==
    (Returned /\ ValidChunking)
    => LET n == Len(ck.document.Content)
       IN  IF n > rag.ChunkSize
           THEN Len(ck.out) = CeilDiv(n - rag.ChunkOverlap, rag.ChunkSize - rag.ChunkOverlap)
           ELSE Len(ck.out) = 1

\* a returned call whose count is not a whole quotient: 6 bytes, size 3, overlap 1
C12_Witness ==
    /\ Returned
    /\ rag.ChunkSize = 3
    /\ rag.ChunkOverlap = 1
    /\ Len(ck.document.Content) = 6
    /\ Len(ck.out) = 3

\* a returned call on an empty content
C12_EmptyContent == Returned /\ ValidChunking /\ ck.document.Content = <<>> /\ Len(ck.out) = 1

(***************************************************************************)
(* The text splitter of the query-engine file:                             *)
(* CharacterTextSplitter.SplitDocument. Its loop is the loop of            *)
(* RAG.chunkDocument, producing Documents; a content no longer than        *)
(* ChunkSize comes back as the document itself.                            *)
(***************************************************************************)
\* SplitDocument up to the loop: return []*Document{doc} for a short content
splitBegin(doc, chunkSize) ==
    IF Len(doc.Content) <= chunkSize
    THEN [pc |-> "done", i |-> 0, out |-> <<StrDoc(doc.ID, doc.Content)>>]
    ELSE [pc |-> "loop", i |-> 0, out |-> <<>>]

\* one pass of the loop of SplitDocument
splitIterate(doc, chunkSize, chunkOverlap, st) ==
    LET content == doc.Content
        n   == Len(content)
        end == IF st.i + chunkSize > n THEN n ELSE st.i + chunkSize
    IN  IF ~(st.i < n) THEN [st EXCEPT !.pc = "done"]
        ELSE IF st.i < 0 \/ end < st.i THEN [st EXCEPT !.pc = "panic"]
        ELSE LET d == StrDoc(ChunkID(doc.ID, st.i), SubSeq(content, st.i + 1, end))
             IN  IF end = n
                 THEN [pc |-> "done", i |-> st.i, out |-> Append(st.out, d)]
                 ELSE [pc |-> "loop", i |-> st.i + (chunkSize - chunkOverlap),
                       out |-> Append(st.out, d)]

RECURSIVE splitRun(_, _, _, _)
splitRun(doc, chunkSize, chunkOverlap, st) ==
    IF st.pc # "loop" THEN st
    ELSE splitRun(doc, chunkSize, chunkOverlap, splitIterate(doc, chunkSize, chunkOverlap, st))

\* SplitDocument(doc) as a whole, where the configuration lets the loop end
SplitDocument(doc, chunkSize, chunkOverlap) ==
    splitRun(doc, chunkSize, chunkOverlap, splitBegin(doc, chunkSize)).out

(***************************************************************************)
(* SpecSplit: a CharacterTextSplitter splitting documents, one loop        *)
(* iteration per step. rag holds the splitter's ChunkSize and ChunkOverlap *)
(* (exported fields the caller sets after NewCharacterTextSplitter); the   *)
(* configurations are the valid ones and the default.                      *)
(***************************************************************************)
SplitterConfigs ==
    {cfg \in [ChunkSize : 1..MaxSizeOpt, ChunkOverlap : 0..MaxSizeOpt, TopK : {DefaultTopK}] :
        cfg.ChunkOverlap < cfg.ChunkSize}
    \cup {IdleConfig}

SplitDocs ==
    [ID : {"d1", "d2"}, Content : {SubSeq(Text, 1, n) : n \in 0..MaxChunkLen},
     HasEmbedding : {FALSE}]

InitSplit == InitChunk

\* NewCharacterTextSplitter() and the caller's assignments to its fields
SpNew ==
    /\ ck.pc = "new"
    /\ rag' \in SplitterConfigs
    /\ ck' = [ck EXCEPT !.pc = "ready"]
    /\ ChunkFrame

\* SplitDocument: entry
SpCall ==
    /\ ck.pc = "ready"
    /\ \E doc \in SplitDocs :
          LET st == splitBegin(doc, rag.ChunkSize)
          IN  ck' = [ck EXCEPT !.pc = st.pc, !.document = doc, !.i = st.i, !.out = st.out]
    /\ UNCHANGED rag
    /\ ChunkFrame

\* SplitDocument: one loop iteration
SpIterate ==
    /\ ck.pc = "loop"
    /\ Len(ck.out) < ChunkCap
    /\ LET st == splitIterate(ck.document, rag.ChunkSize, rag.ChunkOverlap,
                              [pc |-> ck.pc, i |-> ck.i, out |-> ck.out])
       IN  ck' = [ck EXCEPT !.pc = st.pc, !.i = st.i, !.out = st.out]
    /\ UNCHANGED rag
    /\ ChunkFrame

\* SplitDocument: return chunks
SpReturn ==
    /\ ck.pc = "done"
    /\ ck' = [ck EXCEPT !.pc = "ready", !.document = NoDoc, !.i = 0, !.out = <<>>]
    /\ UNCHANGED rag
    /\ ChunkFrame

NextSplit ==
    \/ SpNew
    \/ SpCall
    \/ SpIterate
    \/ SpReturn

SpecSplit == InitSplit /\ [][NextSplit]_vars

(***************************************************************************)
(* Chunk identifiers.                                                      *)
(***************************************************************************)
\* the identifiers of a sequence of chunks
Ids(cs) == [j \in 1..Len(cs) |-> cs[j].ID]

\* the offset in the document of the j-th chunk returned (j = 1, 2, ...)
StartOffset(j) == (j - 1) * (rag.ChunkSize - rag.ChunkOverlap)

\* every chunk of the returned call is named "<document id>-<start offset>" and
\* starts at that offset; the names are pairwise distinct
IdsByOffset ==
    /\ \A j \in 1..Len(ck.out) :
          /\ ck.out[j].ID = ChunkID(ck.document.ID, StartOffset(j))
          /\ ck.out[j].Content =
                SubSeq(ck.document.Content, StartOffset(j) + 1,
                       StartOffset(j) + Len(ck.out[j].Content))
    /\ \A j, k \in 1..Len(ck.out) : j # k => ck.out[j].ID # ck.out[k].ID

\* C13: every chunk split emits is named "<document id>-<start offset>"
\* ("<document id>-0" for a document that fits in one chunk), the names of one
\* document's chunks are pairwise distinct, and splitting the same document again
\* with the same parameters gives the same names in the same order. Stated of
\* CharacterTextSplitter.SplitDocument.
C13_ChunkIds ==
    (Returned /\ ValidChunking)
    => /\ IdsByOffset
       /\ Ids(SplitDocument(ck.document, rag.ChunkSize, rag.ChunkOverlap)) = Ids(ck.out)

\* SplitDocument has returned a document that fits in one chunk
C13_FitsInOneChunk ==
    /\ Returned
    /\ ValidChunking
    /\ Len(ck.document.Content) <= rag.ChunkSize
    /\ Len(ck.out) = 1

\* the same property of RAG.chunkDocument, where it holds
ChunkDocumentIds ==
    (Returned /\ ValidChunking)
    => /\ IdsByOffset
       /\ Ids(chunkDocument(ck.document, rag.ChunkSize, rag.ChunkOverlap)) = Ids(ck.out)

\* SplitDocument on a content longer than ChunkSize names its chunks as
\* RAG.chunkDocument does
SplitLongIds ==
    (Returned /\ ValidChunking /\ Len(ck.document.Content) > rag.ChunkSize)
    => /\ IdsByOffset
       /\ Ids(SplitDocument(ck.document, rag.ChunkSize, rag.ChunkOverlap)) = Ids(ck.out)

(***************************************************************************)
(* Identifiers within the store.                                           *)
(***************************************************************************)
\* C14: chunk ids are unique within the index in every reachable state: whatever
\* documents have been added, the same document twice with the same chunking
\* parameters included, no two stored chunks share an id.
C14_UniqueIdsInStore ==
    \A i, j \in 1..Len(chunks) : i # j => chunks[i].ID # chunks[j].ID

\* the same document has been added by two calls and is stored twice
C14_StoredTwice ==
    /\ last.op = "AddDocuments"
    /\ last.err = Nil
    /\ last.pre # <<>>
    /\ \E i \in 1..Len(last.pre) : \E j \in (Len(last.pre) + 1)..Len(chunks) :
          chunks[i].ID = chunks[j].ID /\ chunks[i].Content = chunks[j].Content

Kept(store, ids) == {i \in 1..Len(store) : store[i].ID \notin ids}

\* after is store with exactly the chunks at the positions of keep left, in order
IsSelection(after, store, keep) ==
    \E f \in [1..Len(after) -> 1..Len(store)] :
        /\ \A i, j \in 1..Len(after) : i < j => f[i] < f[j]
        /\ {f[i] : i \in 1..Len(after)} = keep
        /\ \A i \in 1..Len(after) : after[i] = store[f[i]]

\* C16: delete(ids) returns success and leaves the store as it was with exactly the
\* chunks whose id is in ids removed, the others keeping their order; ids that
\* match no chunk are ignored, and when none matches the store is unchanged.
C16_DeleteRemovesExactly ==
    last.op = "Delete"
    => /\ last.err = Nil
       /\ IsSelection(chunks, last.pre, Kept(last.pre, last.arg))
       /\ (\A i \in 1..Len(last.pre) : last.pre[i].ID \notin last.arg) => chunks = last.pre

\* a Delete that removed the middle one of three chunks, given also an id that
\* matches nothing
C16_Witness ==
    /\ last.op = "Delete"
    /\ "absent" \in last.arg
    /\ Len(last.pre) = 3
    /\ last.pre[2].ID \in last.arg
    /\ last.pre[1].ID \notin last.arg
    /\ last.pre[3].ID \notin last.arg
    /\ chunks = <<last.pre[1], last.pre[3]>>

\* a Delete whose ids match nothing on a store holding chunks
C16_NoMatch ==
    /\ last.op = "Delete"
    /\ last.arg # {}
    /\ last.pre # <<>>
    /\ chunks = last.pre

\* the step is a call of op
Calls(op) == last' # last /\ last'.op = op

\* Clear empties the store; a search right after it returns the empty sequence;
\* an insert right after it is accepted whatever the embedding length of its chunks
ClearResets ==
    /\ Calls("Clear") => (last'.err = Nil /\ chunks' = <<>>)
    /\ (last.op = "Clear" /\ Calls("SimilaritySearch") /\ last'.arg.limit >= 0)
          => (last'.ret = <<>> /\ last'.err = Nil)
    /\ (last.op = "Clear" /\ Calls("AddChunks"))
          => (last'.err = Nil /\ chunks' = last'.arg)

\* the first insert into an emptied store sets the dimension for later inserts: an
\* insert of another embedding length is then refused and stores nothing
FirstInsertSetsDimension ==
    (/\ last.op = "AddChunks" /\ last.pre = <<>> /\ chunks # <<>> /\ Uniform(chunks)
     /\ Calls("AddChunks")
     /\ \E i \in 1..Len(last'.arg) :
           Len(last'.arg[i].Embedding) # Len(chunks[1].Embedding))
    => (last'.err # Nil /\ chunks' = chunks)

\* C17: after clear the store holds no chunks (a following search returns the
\* empty sequence) and the dimension constraint is reset: the next insert is
\* accepted whatever the embedding length of its chunks, and that length is the
\* store's dimension for the inserts after it.
C17_ClearResetsDimension == [][ClearResets /\ FirstInsertSetsDimension]_vars

\* the part of C17 that holds: what Clear and the calls right after it do
ClearEmptiesStore == [][ClearResets]_vars

\* an insert of chunks of embedding length 1 accepted by a store holding nothing
C17_InsertAfterClear ==
    /\ last.op = "AddChunks"
    /\ last.pre = <<>>
    /\ chunks # <<>>
    /\ \A i \in 1..Len(chunks) : Len(chunks[i].Embedding) = 1

(***************************************************************************)
(* Retrieval and the query engine: RAG.RetrieveChunks and                  *)
(* QueryEngine.Query (embedding-keyed).                                    *)
(*                                                                         *)
(* A text that is searched or substituted is a sequence of one-character   *)
(* strings, so that strings.ReplaceAll is computed character by character. *)
(***************************************************************************)
\* "{{context}}"
ContextPlaceholder ==
    <<"{", "{", "c", "o", "n", "t", "e", "x", "t", "}", "}">>

\* "{{query}}"
QueryPlaceholder ==
    <<"{", "{", "q", "u", "e", "r", "y", "}", "}">>

\* "Context " of the format "Context %d:\n%s\n\n"
ContextWord ==
    <<"C", "o", "n", "t", "e", "x", "t", " ">>

\* the template NewQueryEngine puts in place of an empty one
DefaultPromptTemplate ==
    <<"A", "n", "s", "w", "e", "r", " ", "t", "h", "e", " ", "q", "u", "e",
      "s", "t", "i", "o", "n", " ", "b", "a", "s", "e", "d", " ", "o", "n",
      " ", "t", "h", "e", " ", "f", "o", "l", "l", "o", "w", "i", "n", "g",
      " ", "c", "o", "n", "t", "e", "x", "t", ":", "\n", "\n", "{", "{", "c",
      "o", "n", "t", "e", "x", "t", "}", "}", "\n", "\n", "Q", "u", "e", "s",
      "t", "i", "o", "n", ":", " ", "{", "{", "q", "u", "e", "r", "y", "}",
      "}">>

\* "Q: {{query}} C: {{context}}"
SpecTemplate ==
    <<"Q", ":", " ", "{", "{", "q", "u", "e", "r", "y", "}", "}", " ", "C",
      ":", " ", "{", "{", "c", "o", "n", "t", "e", "x", "t", "}", "}">>

\* "{{query}}{{context}}{{query}}{{context}}": each placeholder twice
TwiceTemplate ==
    <<"{", "{", "q", "u", "e", "r", "y", "}", "}", "{", "{", "c", "o", "n",
      "t", "e", "x", "t", "}", "}", "{", "{", "q", "u", "e", "r", "y", "}",
      "}", "{", "{", "c", "o", "n", "t", "e", "x", "t", "}", "}">>

\* "Say hi": no placeholder
PlainTemplate ==
    <<"S", "a", "y", " ", "h", "i">>

\* "{{qu{{context}}ery}}": a context placeholder inside a broken query placeholder
SplitTemplate ==
    <<"{", "{", "q", "u", "{", "{", "c", "o", "n", "t", "e", "x", "t", "}",
      "}", "e", "r", "y", "}", "}">>

\* s has old at position i
HasAt(s, i, old) ==
    /\ i + Len(old) - 1 <= Len(s)
    /\ SubSeq(s, i, i + Len(old) - 1) = old

\* the positions from i on where old occurs in s
OccurrencesFrom(s, i, old) == {j \in i..Len(s) : HasAt(s, j, old)}

RECURSIVE ReplaceAllFrom(_, _, _, _)
\* strings.ReplaceAll from position i on: the occurrences of old (not empty), read
\* left to right without overlap, each replaced by new
ReplaceAllFrom(s, i, old, new) ==
    IF OccurrencesFrom(s, i, old) = {} THEN SubSeq(s, i, Len(s))
    ELSE LET j == CHOOSE k \in OccurrencesFrom(s, i, old) :
                      \A m \in OccurrencesFrom(s, i, old) : k <= m
         IN  SubSeq(s, i, j - 1) \o new \o ReplaceAllFrom(s, j + Len(old), old, new)

\* strings.ReplaceAll(s, old, new)
ReplaceAll(s, old, new) == ReplaceAllFrom(s, 1, old, new)

RECURSIVE Digits(_)
\* the decimal digits %d prints for n >= 0
Digits(n) == IF n < 10 THEN <<ToString(n)>> ELSE Digits(n \div 10) \o <<ToString(n % 10)>>

\* fmt.Sprintf("Context %d:\n%s\n\n", i+1, doc.Content), i+1 given as number
contextBlock(number, content) ==
    ContextWord \o Digits(number) \o <<":", "\n">> \o content \o <<"\n", "\n">>

MetadataWord == <<"M", "e", "t", "a", "d", "a", "t", "a", ":", "\n">>

\* doc.Metadata, a map: kept here as the sequence of its entries [k, v] in the
\* order they were put in, keys and printed values being texts; a chunk built
\* without one has the nil map
metadataOf(doc) == IF "Metadata" \in DOMAIN doc THEN doc.Metadata ELSE <<>>

\* for k, v := range m: Go leaves the iteration order of a map unspecified, and
\* the runtime varies it from one loop to the next
rangeMap(m) == {[i \in 1..Len(m) |-> m[p[i]]] : p \in Permutations(1..Len(m))}

RECURSIVE metadataLines(_)
\* fmt.Sprintf("%s: %v\n", k, v) for each entry iterated
metadataLines(entries) ==
    IF entries = <<>> THEN <<>>
    ELSE Head(entries).k \o <<":", " ">> \o Head(entries).v \o <<"\n">>
         \o metadataLines(Tail(entries))

\* what one iteration of the loop over docs may write for doc
docBlocks(number, doc, includeMetadata) ==
    IF includeMetadata /\ Len(metadataOf(doc)) > 0
    THEN {contextBlock(number, doc.Content) \o MetadataWord \o metadataLines(entries)
          \o <<"\n">> : entries \in rangeMap(metadataOf(doc))}
    ELSE {contextBlock(number, doc.Content)}

RECURSIVE contextFrom(_, _, _)
\* the loop over docs writing to contextBuilder, from the i-th document on
contextFrom(docs, i, includeMetadata) ==
    IF i > Len(docs) THEN {<<>>}
    ELSE {b \o rest : b \in docBlocks(i, docs[i], includeMetadata),
                      rest \in contextFrom(docs, i + 1, includeMetadata)}

\* contextBuilder.String(): the strings the loop may have built
contextStrings(docs, includeMetadata) == contextFrom(docs, 1, includeMetadata)

\* the two strings.ReplaceAll calls: {{context}} first, then {{query}} in the result
promptText(template, context, query) ==
    ReplaceAll(ReplaceAll(template, ContextPlaceholder, context), QueryPlaceholder, query)

\* the texts Query may assemble for the documents retrieved
promptTexts(engine, docs, query) ==
    {promptText(engine.PromptTemplate, c, query) :
        c \in contextStrings(docs, engine.IncludeMetadata)}

\* the error a VectorStore other than the in-memory one may return from a search
StoreError == <<"vector store error">>

\* the error the generation backend may return
BackendError == <<"backend error">>

\* a call of an external collaborator, as logged in calls: what it was given,
\* whether it returned nil as its error, and what it returned
ExtCall(fn, arg, ok, ret) == [fn |-> fn, arg |-> arg, ok |-> ok, ret |-> ret]

\* the wrapping of a failed EmbedQuery as a search failure
embedQueryErrorAsSearch(err) == Wrap("failed to search vector store", err)

\* fmt.Errorf("failed to embed query: %w", err)
embedQueryError(err) == Wrap("failed to embed query", err)

\* VectorStore.SimilaritySearch through the interface: what the in-memory store
\* returns on store, or the failure of another implementation
vectorStoreSearch(store, embedding, limit) ==
    {[panic |-> r.panic, err |-> r.err,
      ret |-> [i \in 1..Len(r.ret) |-> store[r.ret[i]]]] :
        r \in SimilaritySearch(store, embedding, limit)}
    \cup {[panic |-> FALSE, err |-> StoreError, ret |-> <<>>]}

\* RetrieveChunks(ctx, query): EmbedQuery, then VectorStore.SimilaritySearch with
\* r.TopK; each failure wrapped under its own message
RetrieveChunks(store, cfg, query) ==
    {[panic |-> FALSE, ret |-> <<>>, err |-> embedQueryError(GatewayError),
      calls |-> <<ExtCall("EmbedQuery", query, FALSE, <<>>)>>]}
    \cup
    UNION {{[panic |-> r.panic, ret |-> r.ret,
             err   |-> IF r.err = Nil THEN Nil
                       ELSE Wrap("failed to search vector store", r.err),
             calls |-> <<ExtCall("EmbedQuery", query, TRUE, v),
                         ExtCall("SimilaritySearch", [embedding |-> v, limit |-> cfg.TopK],
                                 r.err = Nil /\ ~r.panic, r.ret)>>] :
               r \in vectorStoreSearch(store, v, cfg.TopK)} :
           v \in QueryVectors}

\* QueryOptions as the caller fills them in: NumDocuments 0 and an empty
\* PromptTemplate stand for "not set"
QueryOptions ==
    [NumDocuments    : 0..MaxLimit,
     IncludeMetadata : {FALSE},
     PromptTemplate  : {<<>>, SpecTemplate, TwiceTemplate, PlainTemplate, SplitTemplate}]

\* NewQueryEngine(rag, options): the defaults for what is not set; Provider is
\* rag.Embeddings, reached through the engine's rag
NewQueryEngine(provider, options) ==
    [NumDocuments    |-> IF options.NumDocuments = 0 THEN DefaultTopK ELSE options.NumDocuments,
     IncludeMetadata |-> options.IncludeMetadata,
     PromptTemplate  |-> IF options.PromptTemplate = <<>> THEN DefaultPromptTemplate
                         ELSE options.PromptTemplate,
     Provider        |-> provider]

\* the EmbeddingsProvider the RAG was built with: the package's *Embeddings, or
\* another implementation of the interface
Providers == {"Embeddings", "other"}

\* what EmbedQuery answers: *Embeddings always returns nil and its fixed vector
\* sin(0.1 i), i < dimension, here <<0>> or the direction of <<0, sin 0.1>>;
\* another provider returns a vector or an error
embedQueryAnswers(provider) ==
    IF provider = "Embeddings" THEN {[ok |-> TRUE, v |-> v] : v \in {<<0>>, <<0, 1>>}}
    ELSE {[ok |-> FALSE, v |-> <<>>]} \cup {[ok |-> TRUE, v |-> v] : v \in QueryVectors}

\* core.Response as the backend returns it
BackendResponse == [Text |-> <<"o", "k">>]

\* the end of Query once the documents are retrieved: the prompt, the type
\* assertion e.rag.Embeddings.(*Embeddings), which panics on another provider,
\* and llmProvider.Generate, whose result is returned as it is
queryGenerate(engine, query, docs, calls) ==
    IF engine.Provider # "Embeddings"
    THEN {[panic |-> TRUE, ret |-> <<>>, err |-> Nil, calls |-> calls]}
    ELSE UNION {{[panic |-> FALSE, ret |-> BackendResponse, err |-> Nil,
                  calls |-> Append(calls, ExtCall("Generate", text, TRUE, BackendResponse))],
                 [panic |-> FALSE, ret |-> <<>>, err |-> BackendError,
                  calls |-> Append(calls, ExtCall("Generate", text, FALSE, <<>>))]} :
                    text \in promptTexts(engine, docs, query)}

\* Query from the search on, the query embedded as v
querySearch(store, engine, query, v) ==
    LET embedded == <<ExtCall("EmbedQuery", query, TRUE, v)>>
        searched(r) ==
            Append(embedded,
                   ExtCall("SimilaritySearch",
                           [embedding |-> v, limit |-> engine.NumDocuments],
                           r.err = Nil /\ ~r.panic, r.ret))
    IN  UNION {IF r.panic
               THEN {[panic |-> TRUE, ret |-> <<>>, err |-> Nil, calls |-> searched(r)]}
               ELSE IF r.err # Nil
               THEN {[panic |-> FALSE, ret |-> <<>>,
                      err |-> Wrap("failed to search for similar documents", r.err),
                      calls |-> searched(r)]}
               ELSE queryGenerate(engine, query, r.ret, searched(r)) :
                   r \in vectorStoreSearch(store, v, engine.NumDocuments)}

\* QueryEngine.Query(ctx, query): its possible outcomes
Query(store, engine, query) ==
    UNION {IF ~a.ok
           THEN {[panic |-> FALSE, ret |-> <<>>, err |-> embedQueryError(GatewayError),
                  calls |-> <<ExtCall("EmbedQuery", query, FALSE, <<>>)>>]}
           ELSE querySearch(store, engine, query, a.v) :
               a \in embedQueryAnswers(engine.Provider)}

(***************************************************************************)
(* RAG.Query: retrieval and generation in the RAG itself.                  *)
(***************************************************************************)
CreatePromptHeader == <<"A", "n", "s", "w", "e", "r", " ", "t", "h", "e", " ", "f", "o", "l", "l", "o", "w", "i", "n", "g", " ", "q", "u", "e", "s", "t", "i", "o", "n", " ", "b", "a", "s", "e", "d", " ", "o", "n", " ", "t", "h", "e", " ", "p", "r", "o", "v", "i", "d", "e", "d", " ", "c", "o", "n", "t", "e", "x", "t", ":", "\n", "\n", "C", "o", "n", "t", "e", "x", "t", ":", "\n">>
DocumentWord == <<"-", "-", "-", " ", "D", "o", "c", "u", "m", "e", "n", "t", " ">>
DocumentRule == <<" ", "-", "-", "-", "\n">>
QuestionWord == <<"Q", "u", "e", "s", "t", "i", "o", "n", ":", " ">>

RECURSIVE createPromptFrom(_, _)
\* the loop of createPrompt from chunk i on
createPromptFrom(cs, i) ==
    IF i > Len(cs) THEN <<>>
    ELSE DocumentWord \o Digits(i) \o DocumentRule \o cs[i].Content \o <<"\n", "\n">>
         \o createPromptFrom(cs, i + 1)

\* createPrompt(query, chunks): the text of the prompt
createPrompt(query, cs) ==
    CreatePromptHeader \o createPromptFrom(cs, 1) \o QuestionWord \o query

\* the wrapping RAG.Query puts around the error of llm.Generate
generateError(err) == Wrap("failed to generate response", err)

\* RAG.Query(ctx, query, llm): RetrieveChunks, createPrompt, llm.Generate
RagQuery(store, cfg, query) ==
    UNION {IF r.panic THEN {r}
           ELSE IF r.err # Nil
           THEN {[panic |-> FALSE, ret |-> <<>>,
                  err |-> Wrap("failed to retrieve chunks", r.err), calls |-> r.calls]}
           ELSE LET text == createPrompt(query, r.ret)
                IN  {[panic |-> FALSE, ret |-> BackendResponse, err |-> Nil,
                      calls |-> Append(r.calls,
                                       ExtCall("Generate", text, TRUE, BackendResponse))],
                     [panic |-> FALSE, ret |-> <<>>, err |-> generateError(BackendError),
                      calls |-> Append(r.calls, ExtCall("Generate", text, FALSE, <<>>))]} :
               r \in RetrieveChunks(store, cfg, query)}

(***************************************************************************)
(* SpecQuery: one caller at a time retrieving and querying over a store    *)
(* filled directly.                                                        *)
(***************************************************************************)
\* the chunks stored: one of them has the query placeholder as its content
QueryPool ==
    { MkChunk("q1", "x", <<"Y">>, <<0, 1>>),
      MkChunk("q2", "x", QueryPlaceholder, <<1, 0>>),
      MkChunk("q3", "y", <<"Z">>, <<1>>) }

\* the query texts
Queries == {<<"X">>, ContextPlaceholder}

\* AddChunks of one chunk of the pool
QeAddChunks ==
    \E c \in QueryPool :
        /\ Len(chunks) < MaxLimit
        /\ LET r == AddChunks(chunks, <<c>>)
           IN  /\ chunks' = r.store
               /\ last' = Call("AddChunks", chunks, <<c>>,
                               [err |-> r.err, ret |-> <<>>, calls |-> <<>>, panic |-> FALSE])
        /\ StoreFrame

DoRetrieveChunks ==
    \E query \in Queries :
        \E r \in RetrieveChunks(chunks, rag, query) :
            /\ last' = Call("RetrieveChunks", chunks, [query |-> query], r)
            /\ UNCHANGED chunks
            /\ StoreFrame

\* RAG.Query with a generation backend
DoRagQuery ==
    \E query \in Queries :
        \E r \in RagQuery(chunks, rag, query) :
            /\ last' = Call("RagQuery", chunks, [query |-> query], r)
            /\ UNCHANGED chunks
            /\ StoreFrame

InitQuery ==
    /\ chunks = <<>>
    /\ rag = IdleConfig
    /\ last = NoCall
    /\ mu = IdleMu
    /\ procs = IdleProcs
    /\ hist = IdleHist
    /\ ck = IdleCk
    /\ sDocuments = NoDocuments
    /\ sVectors = NoVectors
    /\ qe = NoEngine
    /\ cache = NoCache
    /\ now = 0
    /\ live = NoEntries

\* NewRAG with one of the providers, then NewQueryEngine over it
QeNewQueryEngine ==
    /\ qe = NoEngine
    /\ \E options \in QueryOptions, provider \in Providers :
          qe' = NewQueryEngine(provider, options)
    /\ UNCHANGED <<chunks, rag, last, mu, procs, hist, ck, sDocuments, sVectors, cache, now, live>>

DoQuery ==
    /\ qe # NoEngine
    /\ \E query \in Queries :
          \E r \in Query(chunks, qe, query) :
              last' = Call("Query", chunks, [query |-> query], r)
    /\ UNCHANGED chunks
    /\ StoreFrame

NextQuery ==
    \/ QeNewQueryEngine
    \/ QeAddChunks
    \/ DoClear
    \/ DoRetrieveChunks
    \/ DoQuery

SpecQuery == InitQuery /\ [][NextQuery]_vars

\* SpecRagQuery: one caller at a time answering through RAG.Query
NextRagQuery ==
    \/ QeAddChunks
    \/ DoClear
    \/ DoRagQuery

SpecRagQuery == InitQuery /\ [][NextRagQuery]_vars

(***************************************************************************)
(* Claims on retrieval and on the query engine, under SpecQuery.           *)
(***************************************************************************)
\* the last call retrieved: RAG.RetrieveChunks, or QueryEngine.Query, which embeds
\* and searches the same way
Retrieved == last.op \in {"RetrieveChunks", "Query"}

\* the error kinds a caller can tell apart: the first message of the chain
EmbeddingKind(err) == err # Nil /\ Head(err) = "failed to embed query"
SearchKind(err) ==
    err # Nil /\ Head(err) \in {"failed to search vector store",
                                "failed to search for similar documents"}

\* the positions of the calls to fn in the log of the last call
CallsTo(fn) == {i \in DOMAIN last.calls : last.calls[i].fn = fn}

EmbedFailed == Retrieved /\ ~last.calls[1].ok
SearchFailed ==
    /\ Retrieved
    /\ ~last.panic
    /\ \E i \in CallsTo("SimilaritySearch") : ~last.calls[i].ok

\* C18: a retrieval calls the embedding gateway with the query text first and the
\* store's search only after it; when the embedding call fails the search is not
\* called and the error returned is of the embedding kind, which the error
\* returned for a failed search is not
C18_EmbedBeforeSearch ==
    Retrieved =>
        /\ CallsTo("EmbedQuery") = {1}
        /\ last.calls[1].arg = last.arg.query
        /\ CallsTo("SimilaritySearch") \subseteq {2}
        /\ EmbedFailed =>
              /\ CallsTo("SimilaritySearch") = {}
              /\ EmbeddingKind(last.err)
              /\ ~SearchKind(last.err)
        /\ SearchFailed =>
              /\ SearchKind(last.err)
              /\ ~EmbeddingKind(last.err)

\* C18 witness: a RetrieveChunks whose embedding call failed
C18_Witness == last.op = "RetrieveChunks" /\ EmbedFailed

\* a RetrieveChunks whose search failed after the query was embedded
C18_SearchFailed == last.op = "RetrieveChunks" /\ SearchFailed

\* the positions from i on where one of the two placeholders occurs in s
PlaceholdersFrom(s, i) ==
    OccurrencesFrom(s, i, ContextPlaceholder) \cup OccurrencesFrom(s, i, QueryPlaceholder)

RECURSIVE SubstituteFrom(_, _, _, _)
\* the template from position i on with each placeholder occurring in it replaced:
\* {{context}} by context, {{query}} by query; what is put in is not read again
SubstituteFrom(template, i, context, query) ==
    IF PlaceholdersFrom(template, i) = {} THEN SubSeq(template, i, Len(template))
    ELSE LET j == CHOOSE k \in PlaceholdersFrom(template, i) :
                      \A m \in PlaceholdersFrom(template, i) : k <= m
             isContext == HasAt(template, j, ContextPlaceholder)
         IN  SubSeq(template, i, j - 1)
             \o (IF isContext THEN context ELSE query)
             \o SubstituteFrom(template,
                               j + (IF isContext THEN Len(ContextPlaceholder)
                                    ELSE Len(QueryPlaceholder)),
                               context, query)

\* the text the template stands for, given the context string and the query
Substitute(template, context, query) == SubstituteFrom(template, 1, context, query)

\* the last call was a Query that reached the generation backend
Generated == last.op = "Query" /\ CallsTo("Generate") # {}

\* the chunks its search returned, and the text it handed to the backend
RankedChunks == last.calls[2].ret
HandedText == last.calls[CHOOSE i \in CallsTo("Generate") : TRUE].arg

\* the concatenation of "Context i:\n" + ci.content + "\n\n" over the ranked chunks
RECURSIVE ContextOf(_, _)
ContextOf(cs, i) ==
    IF i > Len(cs) THEN <<>>
    ELSE ContextWord \o Digits(i) \o <<":", "\n">> \o cs[i].Content \o <<"\n", "\n">>
         \o ContextOf(cs, i + 1)

\* C19: the text handed to the generation backend is the template with every
\* {{context}} replaced by the context blocks of the ranked chunks, in ranked
\* order, and every {{query}} replaced by the query text; a placeholder that the
\* template does not hold changes nothing
C19_TemplateSubstitution ==
    (Generated /\ ~qe.IncludeMetadata) =>
        HandedText = Substitute(qe.PromptTemplate, ContextOf(RankedChunks, 1), last.arg.query)

\* neither what is put in nor its meeting with the template makes a placeholder
\* the template did not hold
NoNewPlaceholder ==
    LET ctx == ContextOf(RankedChunks, 1)
        afterContext == ReplaceAll(qe.PromptTemplate, ContextPlaceholder, ctx)
    IN  Cardinality(OccurrencesFrom(afterContext, 1, QueryPlaceholder))
          = Cardinality(OccurrencesFrom(qe.PromptTemplate, 1, QueryPlaceholder))

\* where the context brings no {{query}} of its own the code's two replacements
\* give the text of C19
SubstitutionWithoutNewPlaceholder ==
    (Generated /\ NoNewPlaceholder) =>
        HandedText = Substitute(qe.PromptTemplate, ContextOf(RankedChunks, 1), last.arg.query)

\* the example of the specification: "Q: {{query}} C: {{context}}", query "X", one
\* chunk of content "Y" retrieved
SubstitutionExample ==
    (/\ Generated
     /\ qe.PromptTemplate = SpecTemplate
     /\ last.arg.query = <<"X">>
     /\ Len(RankedChunks) = 1
     /\ RankedChunks[1].Content = <<"Y">>)
    => HandedText = <<"Q", ":", " ", "X", " ", "C", ":", " ", "C", "o", "n", "t", "e", "x", "t",
                      " ", "1", ":", "\n", "Y", "\n", "\n">>

\* the example is reached
SubstitutionExampleReached ==
    /\ Generated
    /\ qe.PromptTemplate = SpecTemplate
    /\ last.arg.query = <<"X">>
    /\ Len(RankedChunks) = 1
    /\ RankedChunks[1].Content = <<"Y">>

\* a Query over a retrieved chunk whose content holds {{query}}
QueryInsideContext ==
    /\ Generated
    /\ \E i \in DOMAIN RankedChunks : RankedChunks[i].Content = QueryPlaceholder

\* the last call was a Query whose retrieval returned no chunk and no error
ZeroChunks ==
    /\ last.op = "Query"
    /\ 2 \in CallsTo("SimilaritySearch")
    /\ last.calls[2].ok
    /\ last.calls[2].ret = <<>>

\* the Query called the generation backend once, with the template filled in
\* over an empty context string, and returned what the backend returned
AnsweredOverEmptyContext ==
    /\ ~last.panic
    /\ Cardinality(CallsTo("Generate")) = 1
    /\ HandedText = Substitute(qe.PromptTemplate, <<>>, last.arg.query)
    /\ LET g == last.calls[CHOOSE i \in CallsTo("Generate") : TRUE]
       IN  IF g.ok THEN last.err = Nil /\ last.ret = g.ret
           ELSE last.err = BackendError /\ last.ret = <<>>

\* C20: when retrieval yields no chunk, as on an empty index, Query does not
\* fail: it fills the template with an empty context string, calls the generation
\* backend once with that text and returns the backend's result
C20_NoChunksStillAnswers == ZeroChunks => AnsweredOverEmptyContext

\* with the package's own *Embeddings as the provider, and a template that the
\* empty context does not close into a placeholder, Query answers over no chunk
EmbeddingsProviderAnswers ==
    (ZeroChunks /\ qe.Provider = "Embeddings" /\ NoNewPlaceholder) => AnsweredOverEmptyContext

\* a Query over an empty store that reached the backend
AnsweredOnEmptyStore == ZeroChunks /\ last.pre = <<>> /\ Generated

\* a Query over an empty store that panicked after its search returned no chunk
PanickedOnEmptyStore == ZeroChunks /\ last.pre = <<>> /\ last.panic

(***************************************************************************)
(* SpecStrQuery: the query engine of the string-keyed file, whose store    *)
(* embeds the query itself and whose RAG holds the generation backend.     *)
(***************************************************************************)
\* QueryEngine.Query(ctx, query) of the string-keyed file: its possible outcomes
StrQuery(store, engine, query) ==
    LET searched(r) ==
            <<ExtCall("SimilaritySearch", [query |-> query, k |-> engine.NumDocuments],
                      r.err = Nil /\ ~r.panic, r.ret)>>
    IN  UNION {IF r.panic
               THEN {[panic |-> TRUE, ret |-> <<>>, err |-> Nil, calls |-> searched(r)]}
               ELSE IF r.err # Nil
               THEN {[panic |-> FALSE, ret |-> <<>>,
                      err |-> Wrap("failed to search for similar documents", r.err),
                      calls |-> searched(r)]}
               ELSE UNION {{[panic |-> FALSE, ret |-> BackendResponse, err |-> Nil,
                             calls |-> Append(searched(r),
                                              ExtCall("Generate", text, TRUE, BackendResponse))],
                            [panic |-> FALSE, ret |-> <<>>, err |-> BackendError,
                             calls |-> Append(searched(r),
                                              ExtCall("Generate", text, FALSE, <<>>))]} :
                               text \in promptTexts(engine, r.ret, query)} :
                   r \in StrSimilaritySearch(store, query, engine.NumDocuments)}

\* the documents stored
StrPool == {StrDoc("s1", <<"a">>), StrDoc("s2", QueryPlaceholder)}

\* NewQueryEngine over a RAG with its llmProvider
QsNewQueryEngine ==
    /\ qe = NoEngine
    /\ \E options \in QueryOptions : qe' = NewQueryEngine("llmProvider", options)
    /\ UNCHANGED <<chunks, rag, last, mu, procs, hist, ck, sDocuments, sVectors, cache, now, live>>

QsFrame == UNCHANGED <<chunks, rag, mu, procs, hist, ck, qe, cache, now, live>>

\* AddDocuments of one document, the provider answering
QsAddDocuments ==
    /\ Len(sDocuments) < MaxLimit
    /\ \E d \in StrPool :
          LET s == StrAddDocuments(StrNow, <<d>>)
          IN  /\ sDocuments' = s.documents
              /\ sVectors' = s.vectors
              /\ last' = Call("AddDocuments", StrNow, <<d>>,
                              [err |-> Nil, ret |-> <<>>, calls |-> <<>>, panic |-> FALSE])
    /\ QsFrame

QsClear ==
    /\ sDocuments' = StrClear(StrNow).documents
    /\ sVectors' = StrClear(StrNow).vectors
    /\ last' = Call("Clear", StrNow, <<>>,
                    [err |-> Nil, ret |-> <<>>, calls |-> <<>>, panic |-> FALSE])
    /\ QsFrame

DoStrQuery ==
    /\ qe # NoEngine
    /\ \E query \in Queries :
          \E r \in StrQuery(StrNow, qe, query) :
              last' = Call("Query", StrNow, [query |-> query], r)
    /\ UNCHANGED <<sDocuments, sVectors>>
    /\ QsFrame

NextStrQuery ==
    \/ QsNewQueryEngine
    \/ QsAddDocuments
    \/ QsClear
    \/ DoStrQuery

SpecStrQuery == InitQuery /\ [][NextStrQuery]_vars

\* on an empty index the string-keyed Query returns the store's error, wrapped,
\* and does not call the generation backend
StrEmptyIndexFails ==
    (last.op = "Query" /\ last.pre = StrStore(<<>>, <<>>)) =>
        /\ last.err = <<"failed to search for similar documents", "no documents in the store">>
        /\ CallsTo("Generate") = {}

\* a string-keyed Query on an empty index
StrQueriedEmptyIndex == last.op = "Query" /\ last.pre = StrStore(<<>>, <<>>)

\* the last call was an answer, by RAG.Query or by QueryEngine.Query, whose
\* retrieval succeeded
RetrievalSucceeded ==
    /\ last.op \in {"Query", "RagQuery"}
    /\ 2 \in CallsTo("SimilaritySearch")
    /\ last.calls[2].ok

\* the call to the generation backend in the log of the last call
GenerateCall == last.calls[CHOOSE i \in CallsTo("Generate") : TRUE]

\* the backend's result is what the answer returned
PassedThrough ==
    IF GenerateCall.ok THEN last.err = Nil /\ last.ret = GenerateCall.ret
    ELSE last.err = BackendError /\ last.ret = <<>>

\* C21: whenever retrieval succeeds the answer calls the backend's Generate
\* exactly once, as its last call, after the prompt is assembled, and never
\* GenerateStream; it returns the backend's response unchanged on success and the
\* backend's error unchanged, neither wrapped nor replaced, on failure
C21_GenerateOncePassThrough ==
    RetrievalSucceeded =>
        /\ ~last.panic
        /\ CallsTo("Generate") = {Len(last.calls)}
        /\ CallsTo("GenerateStream") = {}
        /\ PassedThrough

\* QueryEngine.Query over the package's *Embeddings calls Generate once and
\* returns its result unchanged
EngineOverEmbeddingsPassesThrough ==
    (RetrievalSucceeded /\ last.op = "Query" /\ qe.Provider = "Embeddings") =>
        /\ ~last.panic
        /\ CallsTo("Generate") = {Len(last.calls)}
        /\ CallsTo("GenerateStream") = {}
        /\ PassedThrough

\* RAG.Query calls Generate once and returns its response unchanged; its error
\* is returned inside "failed to generate response"
RagQueryWrapsBackendError ==
    (RetrievalSucceeded /\ last.op = "RagQuery" /\ ~last.panic) =>
        /\ CallsTo("Generate") = {Len(last.calls)}
        /\ CallsTo("GenerateStream") = {}
        /\ IF GenerateCall.ok THEN last.err = Nil /\ last.ret = GenerateCall.ret
           ELSE last.err = Wrap("failed to generate response", BackendError)

\* a RAG.Query whose backend failed after a successful retrieval
RagQueryBackendFailed ==
    /\ RetrievalSucceeded
    /\ last.op = "RagQuery"
    /\ CallsTo("Generate") # {}
    /\ ~GenerateCall.ok

\* a QueryEngine.Query that panicked after a successful retrieval
EnginePanickedAfterRetrieval ==
    RetrievalSucceeded /\ last.op = "Query" /\ last.panic

(***************************************************************************)
(* SpecOptions: the query engine under every QueryOptions, over chunks     *)
(* that carry metadata.                                                    *)
(***************************************************************************)
\* the least NumDocuments a caller configures
MinNumDocuments == -1

\* QueryOptions as the caller fills them in, every field varied
EngineOptions ==
    [NumDocuments    : MinNumDocuments..MaxLimit,
     IncludeMetadata : BOOLEAN,
     PromptTemplate  : {<<>>, SpecTemplate}]

\* a chunk with its Metadata map
MkMetaChunk(id, content, emb, md) ==
    [ID |-> id, DocumentID |-> "m", Content |-> content, Embedding |-> emb, Metadata |-> md]

\* the chunks stored: with no metadata, one entry and two entries
MetaPool ==
    { MkMetaChunk("m0", <<"Z">>, <<1, 0>>, <<>>),
      MkMetaChunk("m1", <<"Y">>, <<0, 1>>, <<[k |-> <<"a">>, v |-> <<"1">>]>>),
      MkMetaChunk("m2", <<"W">>, <<1, 1>>,
                  <<[k |-> <<"a">>, v |-> <<"1">>], [k |-> <<"b">>, v |-> <<"2">>]>>) }

\* NewRAG with the package's *Embeddings, then NewQueryEngine over it
QoNewQueryEngine ==
    /\ qe = NoEngine
    /\ \E options \in EngineOptions :
          /\ qe' = NewQueryEngine("Embeddings", options)
          /\ last' = Call("NewQueryEngine", chunks, [options |-> options],
                          [err |-> Nil, ret |-> <<>>, calls |-> <<>>, panic |-> FALSE])
    /\ UNCHANGED <<chunks, rag, mu, procs, hist, ck, sDocuments, sVectors, cache, now, live>>

\* AddChunks of one chunk of the pool
QoAddChunks ==
    \E c \in MetaPool :
        /\ Len(chunks) < MaxLimit
        /\ LET r == AddChunks(chunks, <<c>>)
           IN  /\ chunks' = r.store
               /\ last' = Call("AddChunks", chunks, <<c>>,
                               [err |-> r.err, ret |-> <<>>, calls |-> <<>>, panic |-> FALSE])
        /\ StoreFrame

NextOptions ==
    \/ QoNewQueryEngine
    \/ QoAddChunks
    \/ DoClear
    \/ DoQuery

SpecOptions == InitQuery /\ [][NextOptions]_vars

RECURSIVE StoredLines(_)
\* one "key: value" line per entry, in the order the entries are stored
StoredLines(md) ==
    IF md = <<>> THEN <<>>
    ELSE Head(md).k \o <<":", " ">> \o Head(md).v \o <<"\n">> \o StoredLines(Tail(md))

RECURSIVE ContextWithMetadata(_, _, _)
\* the context blocks of the ranked chunks, each followed, when metadata is asked
\* for and the chunk has some, by its "Metadata:\n" block
ContextWithMetadata(cs, i, includeMetadata) ==
    IF i > Len(cs) THEN <<>>
    ELSE ContextWord \o Digits(i) \o <<":", "\n">> \o cs[i].Content \o <<"\n", "\n">>
         \o (IF includeMetadata /\ cs[i].Metadata # <<>>
             THEN MetadataWord \o StoredLines(cs[i].Metadata) \o <<"\n">>
             ELSE <<>>)
         \o ContextWithMetadata(cs, i + 1, includeMetadata)

\* C22: with IncludeMetadata a "Metadata:\n" block follows the context block of
\* exactly the chunks whose metadata is not empty, one "key: value" line per
\* entry in the stored order, and without it no metadata is written; the text
\* is thus a function of the retrieved chunks, the options and the query
C22_MetadataBlocks ==
    Generated =>
        HandedText = promptText(qe.PromptTemplate,
                                ContextWithMetadata(RankedChunks, 1, qe.IncludeMetadata),
                                last.arg.query)

\* two successive Query calls with the same query that retrieved the same chunks
\* hand the same text to the backend
SamePromptStep ==
    (/\ Generated
     /\ Generated'
     /\ last'.arg = last.arg
     /\ RankedChunks' = RankedChunks)
    => HandedText' = HandedText

SameInputsSamePrompt == [][SamePromptStep]_vars

\* the lines of a metadata block are those of the chunk's entries, in some order
MetadataInSomeOrder ==
    Generated =>
        \E c \in contextStrings(RankedChunks, qe.IncludeMetadata) :
            HandedText = promptText(qe.PromptTemplate, c, last.arg.query)

\* where no retrieved chunk has more than one metadata entry, or metadata is not
\* asked for, the text is the one of C22
SingleEntryMetadata ==
    (/\ Generated
     /\ \/ ~qe.IncludeMetadata
        \/ \A i \in DOMAIN RankedChunks : Len(RankedChunks[i].Metadata) <= 1)
    => HandedText = promptText(qe.PromptTemplate,
                               ContextWithMetadata(RankedChunks, 1, qe.IncludeMetadata),
                               last.arg.query)

\* a Query with IncludeMetadata that retrieved a chunk of two metadata entries
TwoEntriesRetrieved ==
    /\ Generated
    /\ qe.IncludeMetadata
    /\ \E i \in DOMAIN RankedChunks : Len(RankedChunks[i].Metadata) = 2

\* a Query with IncludeMetadata that retrieved a chunk of one metadata entry and
\* a chunk of none
OneEntryRetrieved ==
    /\ Generated
    /\ qe.IncludeMetadata
    /\ \E i \in DOMAIN RankedChunks : Len(RankedChunks[i].Metadata) = 1
    /\ \E i \in DOMAIN RankedChunks : Len(RankedChunks[i].Metadata) = 0

\* the engine was just built from options
Built == last.op = "NewQueryEngine"

\* what NewQueryEngine makes of the fields left unset
DefaultsApplied ==
    Built =>
        /\ last.arg.options.NumDocuments = 0 => qe.NumDocuments = 3
        /\ last.arg.options.PromptTemplate = <<>> => qe.PromptTemplate = DefaultPromptTemplate
        /\ last.arg.options.NumDocuments # 0 => qe.NumDocuments = last.arg.options.NumDocuments
        /\ last.arg.options.PromptTemplate # <<>>
              => qe.PromptTemplate = last.arg.options.PromptTemplate

\* the searches of the last Query were each asked for at least one document
SearchedForAtLeastOne ==
    \A i \in CallsTo("SimilaritySearch") : last.calls[i].arg.limit >= 1

\* C23: the number of documents handed to retrieval is always at least 1: an
\* engine built with NumDocuments unset uses 3, and the default template when
\* PromptTemplate is unset, and a NumDocuments below 1 is rejected, not handed to
\* the search
C23_NumDocumentsAtLeastOne ==
    /\ DefaultsApplied
    /\ last.op = "Query" =>
          /\ SearchedForAtLeastOne
          /\ qe.NumDocuments < 1 => CallsTo("SimilaritySearch") = {}

\* an engine built with both fields unset
BuiltWithDefaults ==
    /\ Built
    /\ last.arg.options.NumDocuments = 0
    /\ last.arg.options.PromptTemplate = <<>>

\* a Query of an engine configured with a negative NumDocuments: the search is
\* called with it and panics in make([]*Chunk, 0, limit)
NegativeLimitSearched ==
    /\ last.op = "Query"
    /\ qe.NumDocuments < 0
    /\ 2 \in CallsTo("SimilaritySearch")
    /\ last.calls[2].arg.limit = qe.NumDocuments
    /\ last.panic

\* an engine whose NumDocuments is at least 1, given or defaulted, searches for
\* that many
PositiveLimitPassedOn ==
    (last.op = "Query" /\ qe.NumDocuments >= 1) =>
        /\ 2 \in CallsTo("SimilaritySearch")
        /\ last.calls[2].arg.limit = qe.NumDocuments

(***************************************************************************)
(* SpecLive: the goroutines of SpecConc under a fair scheduler, a search   *)
(* that panics included.                                                   *)
(***************************************************************************)
\* the calls a goroutine may make: one of each operation, and a search whose
\* limit is negative, which panics in make([]*Chunk, 0, limit) with the mutex held
LiveCalls ==
    [op : {"AddChunks"}, arg : {<<MkChunk("c2", "x", <<"b">>, <<0, 1>>)>>}]
    \cup [op : {"SimilaritySearch"}, arg : [embedding : {<<1, 0>>}, limit : {-1, 1}]]
    \cup [op : {"Delete"}, arg : {{"c1"}}]
    \cup [op : {"Clear"}, arg : {<<>>}]

\* goroutine p enters a call
LvCall(p) ==
    /\ procs[p].pc = "idle"
    /\ \E c \in LiveCalls :
          procs' = [procs EXCEPT ![p] =
                       [@ EXCEPT !.pc = "lock", !.op = c.op, !.arg = c.arg,
                                 !.lo = Len(hist),
                                 !.overlap = \E q \in Procs \ {p} : Busy(q)]]
    /\ UNCHANGED <<chunks, mu, hist>>
    /\ ConcFrame

\* a step of goroutine p inside a call; the deferred Unlock runs on a return
\* and on a panic alike
LvStep(p) ==
    \/ GoLock(p)
    \/ GoLoad(p)
    \/ GoStore(p)
    \/ GoSearch(p)
    \/ GoUnlock(p)

NextLive == \E p \in Procs : LvCall(p) \/ LvStep(p)

\* the scheduler runs every goroutine that can take a step; a goroutine waiting
\* in Lock can take one whenever the mutex is free
FairLive == \A p \in Procs : WF_vars(LvStep(p))

SpecLive == InitConc /\ [][NextLive]_vars /\ FairLive

\* C24: no operation of the store blocks for ever: every AddChunks,
\* SimilaritySearch, Delete and Clear that was called takes the mutex, completes
\* and releases it on every path, so each call returns and no set of concurrent
\* callers deadlocks
C24_EveryCallReturns == \A p \in Procs : Busy(p) ~> (procs[p].pc = "done")

\* C24 witness: all goroutines returned, one of them from a call made while
\* another was inside its own, one from a search that panicked
C24_Witness ==
    /\ \A p \in Procs : procs[p].pc = "done"
    /\ \E p \in Procs : procs[p].overlap
    /\ \E p \in Procs : procs[p].op = "SimilaritySearch" /\ procs[p].arg.limit < 0

\* the mutex is held by a goroutine between its Lock and its Unlock and by no
\* one else; once every goroutine has returned it is free
MutexHeldInsideCalls ==
    /\ \A p \in Procs : (procs[p].pc \in {"load", "store", "search", "unlock"}) <=> mu = p
    /\ (\A p \in Procs : procs[p].pc \in {"idle", "done"}) => mu = IdleMu

\* while a goroutine is inside a call, some goroutine can take a step
NoDeadlock == (\E p \in Procs : Busy(p)) => \E q \in Procs : ENABLED LvStep(q)

(***************************************************************************)
(* The response cache (pkg/cache): MemoryCache and CacheMiddleware.        *)
(*                                                                         *)
(* entries is a Go map: here a function from the keys present to           *)
(* cacheEntry records. A time is a number of clock ticks; time.Since(t) is *)
(* now - t. The mutex is not modelled: one caller at a time.               *)
(***************************************************************************)
MaxTime == 3
MaxEntries == 2

\* the prompts: their texts, the empty text among them
PromptTexts == {"", "p", "q"}
Prompts == [Text : PromptTexts]

\* the responses a caller or a provider hands over
Responses == {"r1", "r2"}

\* the nil *core.Response
NilResponse == "nil"

\* defaultHashFunc(prompt)
hashFunc(prompt) == prompt.Text

\* the options of NewMemoryCache: WithTTL, WithMaxEntries
CacheOptions == [ttl : 0..1, maxEntries : 0..MaxEntries]

\* NewMemoryCache(options...)
NewMemoryCache(o) == [entries |-> NoEntries, ttl |-> o.ttl, maxEntries |-> o.maxEntries]

\* delete(m, key)
mapDelete(m, key) == [k \in (DOMAIN m) \ {key} |-> m[k]]

\* m[key] = value
mapStore(m, key, value) == [k \in (DOMAIN m) \cup {key} |-> IF k = key THEN value ELSE m[k]]

\* an expiry test that lets no entry expire
expiredNever(entry, ttl, t) == FALSE

\* the expiry test of Get: time.Since(entry.timestamp) > c.ttl
expired(entry, ttl, t) == t - entry.timestamp > ttl

\* Get(ctx, prompt) at time t
CacheGet(c, t, prompt) ==
    LET key == hashFunc(prompt)
    IN  IF key \notin DOMAIN c.entries THEN [response |-> NilResponse, found |-> FALSE]
        ELSE IF expired(c.entries[key], c.ttl, t)
        THEN [response |-> NilResponse, found |-> FALSE]
        ELSE [response |-> c.entries[key].response, found |-> TRUE]

RECURSIVE findOldest(_, _, _, _, _)
\* the loop of Set over c.entries, visiting the keys in order from the i-th on:
\* oldestKey == "" stands for "none found yet"
findOldest(entries, order, i, oldestKey, oldestTime) ==
    IF i > Len(order) THEN oldestKey
    ELSE IF oldestKey = "" \/ entries[order[i]].timestamp < oldestTime
    THEN findOldest(entries, order, i + 1, order[i], entries[order[i]].timestamp)
    ELSE findOldest(entries, order, i + 1, oldestKey, oldestTime)

\* the first part of Set: at capacity, delete(c.entries, oldestKey); the range
\* over the map visits the keys in any order
evictOldest(entries, maxEntries) ==
    IF Cardinality(DOMAIN entries) >= maxEntries
    THEN {mapDelete(entries, findOldest(entries, order, 1, "", 0)) :
              order \in Orders(DOMAIN entries)}
    ELSE {entries}

\* Set(ctx, prompt, response) at time t: the caches it may leave, each with the
\* keys its eviction deleted
CacheSet(c, t, prompt, response) ==
    {[cache   |-> [c EXCEPT !.entries = mapStore(kept, hashFunc(prompt),
                                                 [response |-> response, timestamp |-> t])],
      evicted |-> (DOMAIN c.entries) \ (DOMAIN kept)] :
        kept \in evictOldest(c.entries, c.maxEntries)}

\* Invalidate(ctx, prompt)
CacheInvalidate(c, prompt) == [c EXCEPT !.entries = mapDelete(@, hashFunc(prompt))]

\* Clear(ctx)
CacheClear(c) == [c EXCEPT !.entries = NoEntries]

(***************************************************************************)
(* SpecCache: one caller at a time on a MemoryCache, the clock advancing   *)
(* between calls.                                                          *)
(***************************************************************************)
CacheFrame == UNCHANGED <<chunks, rag, mu, procs, hist, ck, sDocuments, sVectors, qe>>

\* a result with no error, no panic and no call to a collaborator
Plain(ret) == [err |-> Nil, ret |-> ret, calls |-> <<>>, panic |-> FALSE]

InitCache ==
    /\ chunks = <<>>
    /\ rag = IdleConfig
    /\ last = NoCall
    /\ mu = IdleMu
    /\ procs = IdleProcs
    /\ hist = IdleHist
    /\ ck = IdleCk
    /\ sDocuments = NoDocuments
    /\ sVectors = NoVectors
    /\ qe = NoEngine
    /\ cache \in {NewMemoryCache(o) : o \in CacheOptions}
    /\ now = 0
    /\ live = NoEntries

\* the clock moves on
Tick ==
    /\ now < MaxTime
    /\ now' = now + 1
    /\ UNCHANGED <<cache, live, last>>
    /\ CacheFrame

DoGet ==
    /\ \E prompt \in Prompts :
          last' = Call("Get", cache, [prompt |-> prompt, at |-> now],
                       Plain(CacheGet(cache, now, prompt)))
    /\ UNCHANGED <<cache, now, live>>
    /\ CacheFrame

DoSet ==
    /\ \E prompt \in Prompts, response \in Responses :
          \E r \in CacheSet(cache, now, prompt, response) :
              /\ cache' = r.cache
              /\ live' = mapStore([k \in (DOMAIN live) \ r.evicted |-> live[k]],
                                  hashFunc(prompt),
                                  [response |-> response, timestamp |-> now])
              /\ last' = Call("Set", cache,
                              [prompt |-> prompt, response |-> response, at |-> now],
                              Plain([evicted |-> r.evicted]))
    /\ UNCHANGED now
    /\ CacheFrame

DoInvalidate ==
    /\ \E prompt \in Prompts :
          /\ cache' = CacheInvalidate(cache, prompt)
          /\ live' = mapDelete(live, hashFunc(prompt))
          /\ last' = Call("Invalidate", cache, [prompt |-> prompt, at |-> now], Plain(<<>>))
    /\ UNCHANGED now
    /\ CacheFrame

DoCacheClear ==
    /\ cache' = CacheClear(cache)
    /\ live' = NoEntries
    /\ last' = Call("CacheClear", cache, [at |-> now], Plain(<<>>))
    /\ UNCHANGED now
    /\ CacheFrame

NextCache ==
    \/ Tick
    \/ DoGet
    \/ DoSet
    \/ DoInvalidate
    \/ DoCacheClear

SpecCache == InitCache /\ [][NextCache]_vars

\* the key of the prompt of the last call
LastKey == hashFunc(last.arg.prompt)

\* the last Set for key is still in force: not invalidated, cleared or evicted
\* since; and it is not older than the TTL at time t
InForce(key) == key \in DOMAIN live
Fresh(key, t) == t - live[key].timestamp <= cache.ttl

\* C25: Get returns (r, found) exactly when the most recent Set for the prompt's
\* key stored r, no Invalidate of it, Clear or eviction of the key came after,
\* and the entry is not older than the TTL; otherwise it returns not found
C25_GetReturnsLiveEntry ==
    last.op = "Get" =>
        IF InForce(LastKey) /\ Fresh(LastKey, last.arg.at)
        THEN last.ret = [response |-> live[LastKey].response, found |-> TRUE]
        ELSE ~last.ret.found

\* C25 witness: a Get that found the response of the last Set, within the TTL
\* but not at the instant of the Set
C25_Witness ==
    /\ last.op = "Get"
    /\ last.ret.found
    /\ last.arg.at > live[LastKey].timestamp

\* a Get of an entry older than the TTL
GetExpired ==
    /\ last.op = "Get"
    /\ InForce(LastKey)
    /\ ~Fresh(LastKey, last.arg.at)

\* a Get of a key whose entry was evicted by a Set of another key
GetEvicted ==
    /\ last.op = "Get"
    /\ ~InForce(LastKey)
    /\ ~last.ret.found
    /\ Cardinality(DOMAIN live) = cache.maxEntries

\* the history variable and the map agree
LiveIsEntries == live = cache.entries

(***************************************************************************)
(* CacheMiddleware over a MemoryCache, and SpecMiddleware.                 *)
(***************************************************************************)
\* the error the wrapped provider may return
ProviderError == <<"provider error">>

\* the stream the wrapped provider returns from GenerateStream
ProviderStream == "stream"

\* a lookup that never finds
mwLookupMiss(c, t, prompt) == [response |-> NilResponse, found |-> FALSE]

\* m.cache.Get(ctx, prompt)
mwLookup(c, t, prompt) == CacheGet(c, t, prompt)

\* CacheMiddleware.Generate(ctx, prompt) at time t: its possible outcomes, each
\* with the cache it leaves and the keys evicted
MwGenerate(c, t, prompt) ==
    LET got == mwLookup(c, t, prompt)
        get == ExtCall("Get", prompt, TRUE, got)
    IN  IF got.found
        THEN {[panic |-> FALSE, ret |-> got.response, err |-> Nil, calls |-> <<get>>,
               cache |-> c, evicted |-> {}, stored |-> FALSE]}
        ELSE {[panic |-> FALSE, ret |-> NilResponse, err |-> ProviderError,
               calls |-> <<get, ExtCall("Generate", prompt, FALSE, NilResponse)>>,
               cache |-> c, evicted |-> {}, stored |-> FALSE]}
             \cup
             UNION {{[panic |-> FALSE, ret |-> response, err |-> Nil,
                      calls |-> <<get, ExtCall("Generate", prompt, TRUE, response),
                                  ExtCall("Set", [prompt |-> prompt, response |-> response],
                                          TRUE, <<>>)>>,
                      cache |-> r.cache, evicted |-> r.evicted, stored |-> TRUE] :
                         r \in CacheSet(c, t, prompt, response)} :
                    response \in Responses}

\* CacheMiddleware.GenerateStream(ctx, prompt): the provider's answer as it is
MwGenerateStream(c, prompt) ==
    {[panic |-> FALSE, ret |-> ProviderStream, err |-> Nil,
      calls |-> <<ExtCall("GenerateStream", prompt, TRUE, ProviderStream)>>],
     [panic |-> FALSE, ret |-> NilResponse, err |-> ProviderError,
      calls |-> <<ExtCall("GenerateStream", prompt, FALSE, NilResponse)>>]}

DoMwGenerate ==
    /\ \E prompt \in Prompts :
          \E r \in MwGenerate(cache, now, prompt) :
              /\ cache' = r.cache
              /\ live' = IF r.stored
                         THEN mapStore([k \in (DOMAIN live) \ r.evicted |-> live[k]],
                                       hashFunc(prompt),
                                       [response |-> r.ret, timestamp |-> now])
                         ELSE live
              /\ last' = Call("Generate", cache, [prompt |-> prompt, at |-> now], r)
    /\ UNCHANGED now
    /\ CacheFrame

DoMwGenerateStream ==
    /\ \E prompt \in Prompts :
          \E r \in MwGenerateStream(cache, prompt) :
              last' = Call("GenerateStream", cache, [prompt |-> prompt, at |-> now], r)
    /\ UNCHANGED <<cache, now, live>>
    /\ CacheFrame

NextMiddleware ==
    \/ Tick
    \/ DoMwGenerate
    \/ DoMwGenerateStream
    \/ DoInvalidate

SpecMiddleware == InitCache /\ [][NextMiddleware]_vars

\* the cache before the last call held an unexpired entry for its prompt
WasCached ==
    /\ LastKey \in DOMAIN last.pre.entries
    /\ last.arg.at - last.pre.entries[LastKey].timestamp <= last.pre.ttl

\* the calls of the last call that went to the wrapped provider
ProviderCalls == CallsTo("Generate") \cup CallsTo("GenerateStream")

\* C26: Generate calls the wrapped provider only on a miss, and then exactly
\* once: on success it stores the response under the prompt and returns it, on an
\* error it returns the error and writes nothing to the cache; with the entry
\* cached and unexpired it returns the cached response and calls the provider
\* not at all. GenerateStream always calls the provider and neither reads nor
\* writes the cache
C26_ProviderOnlyOnMiss ==
    /\ (last.op = "Generate" /\ WasCached) =>
          /\ ProviderCalls = {}
          /\ last.err = Nil
          /\ last.ret = last.pre.entries[LastKey].response
          /\ cache = last.pre
    /\ (last.op = "Generate" /\ ~WasCached) =>
          /\ Cardinality(CallsTo("Generate")) = 1
          /\ CallsTo("GenerateStream") = {}
          /\ LET g == last.calls[CHOOSE i \in CallsTo("Generate") : TRUE]
             IN  /\ g.arg = last.arg.prompt
                 /\ IF g.ok
                    THEN /\ last.err = Nil
                         /\ last.ret = g.ret
                         /\ LastKey \in DOMAIN cache.entries
                         /\ cache.entries[LastKey]
                              = [response |-> g.ret, timestamp |-> last.arg.at]
                    ELSE /\ last.err = ProviderError
                         /\ cache = last.pre
    /\ last.op = "GenerateStream" =>
          /\ Cardinality(CallsTo("GenerateStream")) = 1
          /\ CallsTo("Generate") = {}
          /\ CallsTo("Get") = {}
          /\ CallsTo("Set") = {}
          /\ cache = last.pre
          /\ last.err = (IF last.calls[1].ok THEN Nil ELSE ProviderError)

\* C26 witness: a Generate answered from the cache, the entry having been stored
\* by an earlier Generate
C26_Witness ==
    /\ last.op = "Generate"
    /\ WasCached
    /\ ProviderCalls = {}

\* a Generate whose provider failed on a miss
GenerateMissFailed == last.op = "Generate" /\ ~WasCached /\ last.err # Nil

\* a Generate on a miss over an expired entry, which it replaced
GenerateReplacedExpired ==
    /\ last.op = "Generate"
    /\ LastKey \in DOMAIN last.pre.entries
    /\ ~WasCached
    /\ last.err = Nil

(***************************************************************************)
(* Claims on the order of the steps of AddDocument, under SpecDoc.         *)
(***************************************************************************)
\* the last call was an AddDocument that returned nil
Added == last.op = "AddDocument" /\ last.err = Nil

\* the chunks the chunker makes of the document of the last call
ChunksOfLast == chunkDocument(last.arg, rag.ChunkSize, rag.ChunkOverlap)

\* the chunks the last call inserted
InsertedByLast == SubSeq(chunks, Len(last.pre) + 1, Len(chunks))

\* one gateway call per chunk, in chunk order, each for the chunk's content
OneCallPerChunk ==
    /\ Len(last.calls) = Len(ChunksOfLast)
    /\ \A i \in 1..Len(last.calls) : last.calls[i].text = ChunksOfLast[i].Content

\* every chunk inserted has its embedding set
InsertedEmbedded ==
    /\ Len(InsertedByLast) = Len(ChunksOfLast)
    /\ \A i \in 1..Len(InsertedByLast) : InsertedByLast[i].Embedding # <<>>

\* C27: AddDocument chunks, embeds, inserts: for a document of n chunks it makes
\* exactly n gateway calls, one per chunk, all before the one insert, and every
\* chunk inserted has its embedding set
C27_ChunkEmbedInsert == Added => (OneCallPerChunk /\ InsertedEmbedded)

\* for a document that comes with its own embedding the calls are the n of C27
EmbeddedDocumentCalls ==
    (Added /\ last.arg.HasEmbedding) => (OneCallPerChunk /\ InsertedEmbedded)

\* for a document without one, a call for the whole content comes first, before
\* the document is chunked: n + 1 calls
WholeDocumentEmbeddedFirst ==
    (Added /\ ~last.arg.HasEmbedding) =>
        /\ Len(last.calls) = Len(ChunksOfLast) + 1
        /\ last.calls[1].text = last.arg.Content
        /\ \A i \in 1..Len(ChunksOfLast) : last.calls[i + 1].text = ChunksOfLast[i].Content
        /\ InsertedEmbedded

\* nothing is inserted unless every gateway call succeeded
InsertAfterAllCalls ==
    (last.op = "AddDocument" /\ \E i \in 1..Len(last.calls) : ~last.calls[i].ok)
    => chunks = last.pre

\* an AddDocument of a document of two chunks that had no embedding
AddedWithoutEmbedding ==
    /\ Added
    /\ ~last.arg.HasEmbedding
    /\ Len(ChunksOfLast) = 2

\* an AddDocument of a document of two chunks that had its embedding
AddedWithEmbedding ==
    /\ Added
    /\ last.arg.HasEmbedding
    /\ Len(ChunksOfLast) = 2

(***************************************************************************)
(* Claims on what substitution leaves alone, under SpecQuery.              *)
(***************************************************************************)
\* text occurs in s
Occurs(s, text) == OccurrencesFrom(s, 1, text) # {}

\* the context block of the i-th ranked chunk, its content as stored
BlockOf(i) ==
    ContextWord \o Digits(i) \o <<":", "\n">> \o RankedChunks[i].Content \o <<"\n", "\n">>

\* the content of every retrieved chunk is in the text as it was stored
ContextVerbatim ==
    Occurs(qe.PromptTemplate, ContextPlaceholder) =>
        \A i \in DOMAIN RankedChunks : Occurs(HandedText, BlockOf(i))

\* the query text is in the text as it was given
QueryVerbatim ==
    Occurs(qe.PromptTemplate, QueryPlaceholder) => Occurs(HandedText, last.arg.query)

\* C28: substitution touches the placeholders of the template only: a literal
\* {{query}} inside a retrieved chunk's content and a literal {{context}} inside
\* the query text are both in the assembled prompt verbatim
C28_InsertedTextVerbatim ==
    (Generated /\ ~qe.IncludeMetadata) => (ContextVerbatim /\ QueryVerbatim)

\* the query text is never substituted into: {{query}} is replaced last
QueryTextKept == Generated => QueryVerbatim

\* a Query whose query text is {{context}}, under a template holding {{query}}
ContextInsideQuery ==
    /\ Generated
    /\ last.arg.query = ContextPlaceholder
    /\ Occurs(qe.PromptTemplate, QueryPlaceholder)
    /\ RankedChunks # <<>>

\* a Query that retrieved a chunk whose content is {{query}}, under a template
\* holding {{context}}, and handed the backend a text without that content
QueryPutInsideContext ==
    /\ Generated
    /\ Occurs(qe.PromptTemplate, ContextPlaceholder)
    /\ \E i \in DOMAIN RankedChunks :
          RankedChunks[i].Content = QueryPlaceholder /\ ~Occurs(HandedText, BlockOf(i))

(***************************************************************************)
(* Claims on the capacity of the cache, under SpecCache.                   *)
(***************************************************************************)
\* the number of entries cached
Size(c) == Cardinality(DOMAIN c.entries)

\* the last call was a Set that found the cache at capacity
SetAtCapacity == last.op = "Set" /\ Size(last.pre) >= last.pre.maxEntries

\* key has the oldest timestamp among the entries of c
Oldest(c, key) ==
    /\ key \in DOMAIN c.entries
    /\ \A k \in DOMAIN c.entries : c.entries[key].timestamp <= c.entries[k].timestamp

\* the cache never holds more than maxEntries entries
WithinCapacity == cache.maxEntries >= 1 => Size(cache) <= cache.maxEntries

\* a Set at capacity removes one entry, one with the oldest timestamp
EvictsOldest ==
    (SetAtCapacity /\ last.pre.maxEntries >= 1) =>
        /\ Cardinality(last.ret.evicted) = 1
        /\ \A k \in last.ret.evicted : Oldest(last.pre, k)

\* C29: with maxEntries >= 1 the number of entries never exceeds maxEntries
\* after any sequence of Set, Get, Invalidate and Clear, and the entry a Set at
\* capacity removes to make room is one with the oldest timestamp
C29_BoundedOldestEvicted == WithinCapacity /\ EvictsOldest

\* while no entry is cached under the empty key, the entry removed is an oldest
EvictsOldestOfNamedKeys ==
    (SetAtCapacity /\ last.pre.maxEntries >= 1 /\ "" \notin DOMAIN last.pre.entries) =>
        /\ Cardinality(last.ret.evicted) = 1
        /\ \A k \in last.ret.evicted : Oldest(last.pre, k)

\* a Set at capacity that removed an entry newer than another one cached
EvictedNewer ==
    /\ SetAtCapacity
    /\ \E k \in last.ret.evicted : ~Oldest(last.pre, k)

\* a Set at capacity that removed the one oldest entry, another being newer
EvictedOldest ==
    /\ SetAtCapacity
    /\ Size(last.pre) = 2
    /\ \E k \in last.ret.evicted :
          \A j \in (DOMAIN last.pre.entries) \ {k} :
              last.pre.entries[k].timestamp < last.pre.entries[j].timestamp

\* C30: a Set for a key already cached replaces that entry's response and
\* timestamp and removes no other entry: every other key cached before is still
\* cached after, however many entries there are
C30_OverwriteKeepsOthers ==
    (last.op = "Set" /\ LastKey \in DOMAIN last.pre.entries) =>
        /\ cache.entries[LastKey]
             = [response |-> last.arg.response, timestamp |-> last.arg.at]
        /\ \A k \in (DOMAIN last.pre.entries) \ {LastKey} :
              /\ k \in DOMAIN cache.entries
              /\ cache.entries[k] = last.pre.entries[k]

\* below capacity a Set of a cached key replaces it and keeps every other entry
OverwriteBelowCapacity ==
    (/\ last.op = "Set"
     /\ LastKey \in DOMAIN last.pre.entries
     /\ Size(last.pre) < last.pre.maxEntries)
    => /\ cache.entries[LastKey]
            = [response |-> last.arg.response, timestamp |-> last.arg.at]
       /\ \A k \in (DOMAIN last.pre.entries) \ {LastKey} :
             /\ k \in DOMAIN cache.entries
             /\ cache.entries[k] = last.pre.entries[k]

\* a Set of a cached key always leaves the key with the new response and time
OverwriteReplaces ==
    (last.op = "Set" /\ LastKey \in DOMAIN last.pre.entries) =>
        cache.entries[LastKey] = [response |-> last.arg.response, timestamp |-> last.arg.at]

\* a Set of a cached key, at capacity, that removed another key
OverwriteEvictedOther ==
    /\ SetAtCapacity
    /\ LastKey \in DOMAIN last.pre.entries
    /\ \E k \in last.ret.evicted : k # LastKey

\* a Set of a cached key below capacity
OverwroteBelowCapacity ==
    /\ last.op = "Set"
    /\ LastKey \in DOMAIN last.pre.entries
    /\ Size(last.pre) < last.pre.maxEntries

====
